---- MODULE Spec2Model ----
(***************************************************************************)
(* WanderWhiz: the data-cleaning, place-validation and budget functions of *)
(* app.py, modelled as operators over a small universe of JSON-like Python *)
(* values, and applied by one action per function.                         *)
(*                                                                         *)
(* A Python value is a record [t, s, h, c]:                                *)
(*   t  the Python type: "none", "str", "int", "float", "list", "dict",    *)
(*      "entry" (one key/value pair of a dict, key in s, value in c[1]),   *)
(*      "undefined_obj" (an instance of a class named ...Undefined) and    *)
(*      "object" (any other non-JSON object, s is its str());              *)
(*   s  the text of a str, the key of an entry, or for a float one of      *)
(*      "nan", "inf", "-inf" ("" for a finite float);                      *)
(*   h  a finite number, counted in halves (h = 2 * value), so that 4.5    *)
(*      and the truncation done by int() are representable;                *)
(*   c  the items of a list, the entries of a dict (insertion order).      *)
(* The inputs are JSON-like: dict keys are str, and no bool or tuple       *)
(* occurs, so the tuple branch of deep_clean_data is not modelled.         *)
(*                                                                         *)
(* The request handlers (itinerary, index, gpt_assist, the save routes and *)
(* the load routes) form a second specification, AppSpec: one request per  *)
(* behaviour, the itinerary handler step by step, every other handler in   *)
(* one action, over the session and the Firestore collection. StoreSpec    *)
(* runs sequences of save, delete and load requests of one client over the *)
(* same stores. CollabSpec is the collaborative trip manager of            *)
(* collaborative_planning.py, called by two concurrent clients, on         *)
(* Firestore and on its memory fallback.                                   *)
(***************************************************************************)
EXTENDS Integers, Sequences, FiniteSets, TLC

VARIABLES call, ret, exc, pc

\* one request to a route of the web application: the request, the position
\* in its handler, the handler's local variables (a record, one field for
\* each), the response, the number of calls made to the Routes API and the
\* steps taken so far
VARIABLES request, hpc, local, response, route_calls, steps

\* the stores: session['saved_trips'] (Absent while the key is not in the
\* session), the documents of the Firestore collection 'itineraries', and
\* every trip that a handler has handed to one of the two, in order
VARIABLES session, firebase, handed

\* collaborative planning: the Firestore database of the manager (client is
\* FALSE when the manager fell back to memory), the manager's memory_store,
\* the dict objects that memory_store refers to, the calls of the concurrent
\* clients, and what the manager has reported as done
VARIABLES firestore_db, memory_store, heap, threads, acked

funvars == <<call, ret, exc, pc>>
storevars == <<session, firebase, handed>>
collabvars == <<firestore_db, memory_store, heap, threads, acked>>
appvars == <<request, hpc, local, response, route_calls, steps, session, firebase, handed>>
vars == <<call, ret, exc, pc, request, hpc, local, response, route_calls, steps, session,
          firebase, handed, firestore_db, memory_store, heap, threads, acked>>

-----------------------------------------------------------------------------
(* Python values *)

V(t, s, h, c) == [t |-> t, s |-> s, h |-> h, c |-> c]

None == V("none", "", 0, <<>>)
Str(x) == V("str", x, 0, <<>>)
PyInt(i) == V("int", "", 2 * i, <<>>)
PyFloat(halves) == V("float", "", halves, <<>>)
NaN == V("float", "nan", 0, <<>>)
Inf == V("float", "inf", 0, <<>>)
NegInf == V("float", "-inf", 0, <<>>)
List(items) == V("list", "", 0, items)
Entry(k, v) == V("entry", k, 0, <<v>>)
Dict(entries) == V("dict", "", 0, entries)
UndefinedObj == V("undefined_obj", "", 0, <<>>)
Obj(text) == V("object", text, 0, <<>>)

\* a raised exception, as the result of a call
Raised(e) == V("raise", e, 0, <<>>)

IsNone(v) == v.t = "none"

\* d[k] for a dict d that has the key k
Get(d, k) == LET i == CHOOSE j \in 1..Len(d.c) : d.c[j].s = k IN d.c[i].c[1]
Has(d, k) == d.t = "dict" /\ \E j \in 1..Len(d.c) : d.c[j].s = k
\* d.get(k, default)
GetOr(d, k, default) == IF Has(d, k) THEN Get(d, k) ELSE default

SeqsUpTo(S, n) == UNION {[1..k -> S] : k \in 0..n}

\* the dicts with at most n entries, keys drawn from K without repetition
DictsOver(K, S, n) ==
    {Dict([i \in 1..Len(ks) |-> Entry(ks[i], vs[i])]) :
        <<ks, vs>> \in {p \in SeqsUpTo(K, n) \X SeqsUpTo(S, n) :
                          /\ Len(p[1]) = Len(p[2])
                          /\ \A i, j \in 1..Len(p[1]) : i # j => p[1][i] # p[1][j]}}

-----------------------------------------------------------------------------
(* Text: the str methods the code uses, on the strings of the model *)

\* str.lower()
Lower(x) ==
    CASE x = "NULL" -> "null"
      [] x = "NaN" -> "nan"
      [] x = "Undefined St" -> "undefined st"
      [] x = "Undefined" -> "undefined"
      [] x = "Louvre" -> "louvre"
      [] x = "Cafe" -> "cafe"
      [] x = "Main St" -> "main st"
      [] x = "ChIJ1" -> "chij1"
      [] x = "ChIJ2" -> "chij2"
      [] x = "Alice" -> "alice"
      [] x = "Summary" -> "summary"
      [] x = "Creator" -> "creator"
      [] x = "Maximilian Alexander Lee" -> "maximilian alexander lee"
      [] OTHER -> x

\* 'Undefined' in x
HasMarker(x) == x \in {"Undefined", "Undefined St"}

\* 'Undefined' in str(obj), for an obj that is not itself an Undefined
\* instance: str() of a container is built from the repr() of its keys and
\* items, and the repr() of an Undefined instance is 'Undefined'
RECURSIVE ContainsUndefined(_)
ContainsUndefined(v) ==
    CASE v.t \in {"str", "object"} -> HasMarker(v.s)
      [] v.t = "undefined_obj" -> TRUE
      [] v.t = "entry" -> HasMarker(v.s) \/ ContainsUndefined(v.c[1])
      [] v.t \in {"list", "dict"} -> \E i \in 1..Len(v.c) : ContainsUndefined(v.c[i])
      [] OTHER -> FALSE

\* float(x) of a str: the finite value in halves, "inf", "nan", or a ValueError
FloatOfStr(x) ==
    CASE x = "45" -> PyFloat(90)
      [] x = "0" -> PyFloat(0)
      [] x = "2" -> PyFloat(4)
      [] x = "9" -> PyFloat(18)
      [] x = "-3" -> PyFloat(-6)
      [] x = "4.5" -> PyFloat(9)
      [] x = "100" -> PyFloat(200)
      [] x = "1" -> PyFloat(2)
      [] x = "3" -> PyFloat(6)
      [] x = "7" -> PyFloat(14)
      [] x = "-1" -> PyFloat(-2)
      [] x = "-9" -> PyFloat(-18)
      [] x = "inf" -> Inf
      [] x = "-inf" -> NegInf
      [] x \in {"nan", "NaN"} -> NaN
      [] OTHER -> Raised("ValueError")

\* int(x) of a str: only integer literals parse
IntOfStr(x) ==
    CASE x = "45" -> PyInt(45)
      [] x = "0" -> PyInt(0)
      [] x = "2" -> PyInt(2)
      [] x = "9" -> PyInt(9)
      [] x = "-3" -> PyInt(-3)
      [] x = "100" -> PyInt(100)
      [] x = "1" -> PyInt(1)
      [] x = "3" -> PyInt(3)
      [] x = "7" -> PyInt(7)
      [] x = "-1" -> PyInt(-1)
      [] x = "-9" -> PyInt(-9)
      [] OTHER -> Raised("ValueError")

\* str(v) of a number
StrOfNum(v) ==
    CASE v.s # "" -> v.s
      [] v.t = "int" -> ToString(v.h \div 2)
      [] v.h % 2 = 0 -> ToString(v.h \div 2) \o ".0"
      [] OTHER -> ToString(v.h \div 2) \o ".5"

\* int() of a finite number in halves: truncation toward zero
Trunc(halves) == IF halves >= 0 THEN halves \div 2 ELSE -((-halves) \div 2)

\* float(v)
ToFloat(v) ==
    CASE v.t = "int" -> PyFloat(v.h)
      [] v.t = "float" -> v
      [] v.t = "str" -> FloatOfStr(v.s)
      [] OTHER -> Raised("TypeError")

\* int(v)
ToInt(v) ==
    CASE v.t = "int" -> v
      [] v.t = "float" /\ v.s = "" -> PyInt(Trunc(v.h))
      [] v.t = "float" /\ v.s = "nan" -> Raised("ValueError")
      [] v.t = "float" -> Raised("OverflowError")
      [] v.t = "str" -> IntOfStr(v.s)
      [] OTHER -> Raised("TypeError")

\* bool(v)
Truthy(v) ==
    CASE v.t = "none" -> FALSE
      [] v.t = "str" -> v.s # ""
      [] v.t \in {"int", "float"} -> ~(v.s = "" /\ v.h = 0)
      [] v.t \in {"list", "dict"} -> Len(v.c) > 0
      [] OTHER -> TRUE

-----------------------------------------------------------------------------
(* deep_clean_data *)

UndefinedStrings == {"undefined", "null", "nan"}

\* the list test applied to the item instead of the cleaned item
KeepItemOriginal(item, cleaned_item) == ~IsNone(item)

\* the test that keeps an item of a list: cleaned_item is not None
KeepItem(item, cleaned_item) == ~IsNone(cleaned_item)

\* the test that keeps a key-value pair of a dict
KeepPair(cleaned_key, cleaned_value, value) ==
    ~IsNone(cleaned_key) /\ (~IsNone(cleaned_value) \/ IsNone(value))

\* Keys are str (JSON), and a str that survives cleaning is unchanged, so two
\* keys of obj never clean to the same key.
RECURSIVE deep_clean_data(_)
deep_clean_data(obj) ==
    IF IsNone(obj) THEN None
    ELSE IF obj.t = "undefined_obj" THEN None
    ELSE IF ContainsUndefined(obj) THEN None
    ELSE IF obj.t = "dict" THEN
        LET kept[i \in 0..Len(obj.c)] ==
                IF i = 0 THEN <<>>
                ELSE LET key == obj.c[i].s
                         value == obj.c[i].c[1]
                         cleaned_key == deep_clean_data(Str(key))
                         cleaned_value == deep_clean_data(value)
                     IN IF HasMarker(key) THEN kept[i - 1]
                        ELSE IF KeepPair(cleaned_key, cleaned_value, value)
                        THEN Append(kept[i - 1], Entry(cleaned_key.s, cleaned_value))
                        ELSE kept[i - 1]
        IN Dict(kept[Len(obj.c)])
    ELSE IF obj.t = "list" THEN
        LET cleaned[i \in 0..Len(obj.c)] ==
                IF i = 0 THEN <<>>
                ELSE LET item == obj.c[i]
                         cleaned_item == deep_clean_data(item)
                     IN IF KeepItem(item, cleaned_item)
                        THEN Append(cleaned[i - 1], cleaned_item)
                        ELSE cleaned[i - 1]
        IN List(cleaned[Len(obj.c)])
    ELSE IF obj.t \in {"str", "int", "float"} THEN
        IF obj.t = "str" /\ Lower(obj.s) \in UndefinedStrings THEN None ELSE obj
    ELSE \* any other object: json.dumps raises TypeError
        IF HasMarker(obj.s) THEN None ELSE Str(obj.s)

-----------------------------------------------------------------------------
(* clean_place_data *)

\* the helper safe_get(obj, key), default None
CleanedOrNone(cleaned_value) == IF ~IsNone(cleaned_value) THEN cleaned_value ELSE None
safe_get(obj, key) ==
    IF Has(obj, key) THEN CleanedOrNone(deep_clean_data(Get(obj, key))) ELSE None

\* lo <= x <= hi for a float x; every comparison with nan is False
Between(lo, x, hi) ==
    /\ x.s # "nan"
    /\ IF x.s = "inf" THEN FALSE ELSE IF x.s = "-inf" THEN FALSE
       ELSE 2 * lo <= x.h /\ x.h <= 2 * hi

\* the coordinate test without its two zero checks
ValidCoordinatesRangeOnly(lat_float, lng_float) ==
    /\ Between(-90, lat_float, 90)
    /\ Between(-180, lng_float, 180)

\* the coordinate test of clean_place_data
ValidCoordinates(lat_float, lng_float) ==
    /\ Between(-90, lat_float, 90)
    /\ Between(-180, lng_float, 180)
    /\ lat_float # PyFloat(0)
    /\ lng_float # PyFloat(0)

\* the geometry part of one place: <<"ok", entries>> or <<"continue", <<>>>>
\* when float() raised and the loop went on to the next place
GeometryEntries(geometry, location, lat, lng, lat_float, lng_float) ==
       IF ~(Truthy(geometry) /\ geometry.t = "dict") THEN <<"ok", <<>>>>
       ELSE IF ~(Truthy(location) /\ location.t = "dict") THEN <<"ok", <<>>>>
       ELSE IF IsNone(lat) \/ IsNone(lng) THEN <<"ok", <<>>>>
       ELSE IF lat_float.t = "raise" \/ lng_float.t = "raise" THEN <<"continue", <<>>>>
       ELSE IF ValidCoordinates(lat_float, lng_float)
       THEN <<"ok", <<Entry("geometry",
                       Dict(<<Entry("location",
                               Dict(<<Entry("lat", lat_float), Entry("lng", lng_float)>>))>>))>>>>
       ELSE <<"ok", <<>>>>
GeometryOfLatLng(geometry, location, lat, lng) ==
    GeometryEntries(geometry, location, lat, lng, ToFloat(lat), ToFloat(lng))
GeometryOfLocation(geometry, location) ==
    GeometryOfLatLng(geometry, location, safe_get(location, "lat"), safe_get(location, "lng"))
GeometryOf(geometry) == GeometryOfLocation(geometry, safe_get(geometry, "location"))
CleanGeometry(place) == GeometryOf(safe_get(place, "geometry"))

CleanName(place) ==
    LET name == safe_get(place, "name")
    IN IF Truthy(name) /\ name.t \in {"str", "int", "float"}
       THEN <<Entry("name", Str(IF name.t = "str" THEN name.s ELSE StrOfNum(name)))>>
       ELSE <<>>

CleanPlaceId(place) ==
    LET place_id == safe_get(place, "place_id")
    IN IF Truthy(place_id) /\ place_id.t \in {"str", "int"}
       THEN <<Entry("place_id", Str(IF place_id.t = "str" THEN place_id.s ELSE StrOfNum(place_id)))>>
       ELSE <<>>

CleanRating(place) ==
    LET rating == safe_get(place, "rating")
        rating_float == ToFloat(rating)
    IN IF IsNone(rating) \/ rating_float.t = "raise" THEN <<>>
       ELSE IF Between(0, rating_float, 5) THEN <<Entry("rating", rating_float)>>
       ELSE <<>>

\* a str field kept as it is: vicinity, formatted_address
CleanText(place, key) ==
    LET text == safe_get(place, key)
    IN IF Truthy(text) /\ text.t = "str" THEN <<Entry(key, text)>> ELSE <<>>

\* the price_level part: <<"ok", entries>>, or <<"except", <<>>>> when int()
\* raised an exception that the inner except (ValueError, TypeError) does not
\* catch, so that the outer except Exception skips the place
CleanPriceLevel(place) ==
    LET price_level == safe_get(place, "price_level")
        price_int == ToInt(price_level)
    IN IF IsNone(price_level) THEN <<"ok", <<>>>>
       ELSE IF price_int.t = "raise"
       THEN IF price_int.s \in {"ValueError", "TypeError"} THEN <<"ok", <<>>>>
            ELSE <<"except", <<>>>>
       ELSE IF 0 <= price_int.h /\ price_int.h <= 2 * 4
       THEN <<"ok", <<Entry("price_level", price_int)>>>>
       ELSE <<"ok", <<>>>>

CleanTypes(place) ==
    LET types == safe_get(place, "types")
        cleaned_types == IF types.t = "list"
                         THEN SelectSeq(types.c, LAMBDA t : t.t = "str") ELSE <<>>
    IN IF Truthy(types) /\ types.t = "list" /\ Len(cleaned_types) > 0
       THEN <<Entry("types", List(cleaned_types))>>
       ELSE <<>>

\* one iteration of the loop of clean_place_data: the places it appends
AppendIfComplete(geometry, price, cleaned_place) ==
    IF geometry[1] = "continue" \/ price[1] = "except" THEN <<>>
    ELSE IF Has(cleaned_place, "name") /\ Has(cleaned_place, "geometry")
            /\ Has(Get(cleaned_place, "geometry"), "location")
    THEN <<cleaned_place>>
    ELSE <<>>
CleanedPlace(place, geometry, price) ==
    AppendIfComplete(geometry, price,
                     Dict(CleanName(place) \o CleanPlaceId(place) \o geometry[2]
                          \o CleanRating(place) \o CleanText(place, "vicinity")
                          \o CleanText(place, "formatted_address")
                          \o price[2] \o CleanTypes(place)))
CleanOnePlace(place) ==
    IF place.t # "dict" THEN <<>>
    ELSE CleanedPlace(place, CleanGeometry(place), CleanPriceLevel(place))

\* the loop of clean_place_data over the deep-cleaned places
CleanEach(cleaned) ==
    LET cleaned_places[i \in 0..Len(cleaned.c)] ==
            IF i = 0 THEN <<>> ELSE cleaned_places[i - 1] \o CleanOnePlace(cleaned.c[i])
    IN IF ~Truthy(cleaned) THEN List(<<>>)
       ELSE List(cleaned_places[Len(cleaned.c)])

clean_place_data(places) ==
    IF ~Truthy(places) \/ places.t # "list" THEN List(<<>>)
    ELSE CleanEach(deep_clean_data(places))

-----------------------------------------------------------------------------
(* estimate_budget *)

FoodTypes == {"restaurant", "food", "meal_takeaway", "cafe"}
ActivityTypes == {"tourist_attraction", "museum", "amusement_park", "zoo", "aquarium"}
AccommodationTypes == {"lodging", "hotel"}

FoodCosts == <<15, 25, 45, 75, 120>>
ActivityCosts == <<10, 20, 35, 50, 80>>
AccommodationCosts == <<60, 120, 200, 350, 500>>

BaseTransportation == 25
DefaultPriceLevel == 2

\* any(T in place_types for T in Types)
AnyTypeIn(place_types, Types) ==
    \E i \in 1..Len(place_types.c) :
        place_types.c[i].t = "str" /\ place_types.c[i].s \in Types

\* the chain with the activity test put before the food test
ClassifyActivitiesFirst(place_types) ==
    IF AnyTypeIn(place_types, ActivityTypes) THEN "activities"
    ELSE IF AnyTypeIn(place_types, FoodTypes) THEN "food"
    ELSE IF AnyTypeIn(place_types, AccommodationTypes) THEN "accommodation"
    ELSE "none"

\* the if / elif / elif chain over the types of one place
Classify(place_types) ==
    IF AnyTypeIn(place_types, FoodTypes) THEN "food"
    ELSE IF AnyTypeIn(place_types, ActivityTypes) THEN "activities"
    ELSE IF AnyTypeIn(place_types, AccommodationTypes) THEN "accommodation"
    ELSE "none"

Min(a, b) == IF a < b THEN a ELSE b
Max(a, b) == IF a > b THEN a ELSE b

\* the index used for the cost tables
CostIndex(price_level) == Min(price_level, 4)

\* table[i] of a Python list: 0-based, a negative i counts from the end,
\* -1 stands for IndexError
PyIndex(table, i) ==
    IF 0 <= i /\ i < Len(table) THEN table[i + 1]
    ELSE IF -Len(table) <= i /\ i < 0 THEN table[Len(table) + i + 1]
    ELSE -1

CostTable(category) ==
    CASE category = "food" -> FoodCosts
      [] category = "activities" -> ActivityCosts
      [] category = "accommodation" -> AccommodationCosts

\* round(n / d) for d > 0 as Python 3 rounds a float: to the nearest integer,
\* a tie to the even one
Round(n, d) ==
    LET q == n \div d
        r == n % d
    IN IF 2 * r < d THEN q
       ELSE IF 2 * r > d THEN q + 1
       ELSE IF q % 2 = 0 THEN q ELSE q + 1

\* the result of estimate_budget(places): [raised, total, breakdown, miscellaneous]
estimate_budget(places) ==
    LET start == [raised |-> FALSE, transportation |-> BaseTransportation, food |-> 0,
                  activities |-> 0, accommodation |-> 0]
        budget_breakdown[i \in 0..Len(places.c)] ==
            IF i = 0 THEN start
            ELSE LET b == budget_breakdown[i - 1]
                     place == places.c[i]
                     price_level == GetOr(place, "price_level", PyInt(DefaultPriceLevel)).h \div 2
                     place_types == GetOr(place, "types", List(<<>>))
                     category == Classify(place_types)
                     cost == IF category = "none" THEN 0
                             ELSE PyIndex(CostTable(category), CostIndex(price_level))
                 IN IF b.raised \/ cost < 0 THEN [b EXCEPT !.raised = TRUE]
                    ELSE IF category = "none" THEN b
                    ELSE [b EXCEPT ![category] = @ + cost]
        final == budget_breakdown[Len(places.c)]
        subtotal == final.transportation + final.food + final.activities + final.accommodation
    IN [raised |-> final.raised,
        total |-> Round(11 * subtotal, 10),
        breakdown |-> [transportation |-> final.transportation, food |-> final.food,
                       activities |-> final.activities,
                       accommodation |-> final.accommodation],
        miscellaneous |-> Round(subtotal, 10)]

-----------------------------------------------------------------------------
(* clean_budget_data *)

\* int(x) without the max(0, ...)
IntNotClamped(halves) == PyInt(Trunc(halves))

\* max(0, int(x)) for a finite x in halves
NonNegativeInt(halves) == PyInt(Max(0, Trunc(halves)))

\* the nested helper safe_budget_value(value), default 0
safe_budget_value(value) ==
    CASE value.t = "none" -> PyInt(0)
      [] value.t \in {"int", "float"} ->
            IF value.s # "" THEN PyInt(0) ELSE NonNegativeInt(value.h)
      [] value.t = "str" ->
            IF Lower(value.s) \in {"nan", "undefined", "null", "none", ""} THEN PyInt(0)
            ELSE LET parsed == FloatOfStr(value.s)
                 IN IF parsed.t = "raise" \/ parsed.s # "" THEN PyInt(0)
                    ELSE NonNegativeInt(parsed.h)
      [] OTHER -> PyInt(0)

\* the sum of two Python ints
Plus(a, b) == V("int", "", a.h + b.h, <<>>)

\* the test with < in place of <=
KeepSavedTotalStrict(saved_total, calculated_total) ==
    /\ saved_total.h > 0
    /\ 2 * (IF saved_total.h >= calculated_total.h
            THEN saved_total.h - calculated_total.h
            ELSE calculated_total.h - saved_total.h) < calculated_total.h

\* the test that keeps the saved total: abs(saved - calculated) <= calculated * 0.5
KeepSavedTotal(saved_total, calculated_total) ==
    /\ saved_total.h > 0
    /\ 2 * (IF saved_total.h >= calculated_total.h
            THEN saved_total.h - calculated_total.h
            ELSE calculated_total.h - saved_total.h) <= calculated_total.h

clean_budget_data(budget_data) ==
    IF budget_data.t # "dict"
    THEN [transportation |-> PyInt(0), food |-> PyInt(0), activities |-> PyInt(0),
          miscellaneous |-> PyInt(0), total |-> PyInt(0)]
    ELSE
    LET breakdown == GetOr(budget_data, "breakdown", Dict(<<>>))
        nested == Truthy(breakdown) /\ breakdown.t = "dict"
        transportation == IF nested THEN safe_budget_value(GetOr(breakdown, "transportation", None))
                          ELSE safe_budget_value(GetOr(budget_data, "transportation", None))
        food == IF nested THEN safe_budget_value(GetOr(breakdown, "food", None))
                ELSE safe_budget_value(GetOr(budget_data, "food", None))
        activities == IF nested
                      THEN safe_budget_value(GetOr(breakdown, "activities",
                                                   GetOr(breakdown, "attractions", PyInt(0))))
                      ELSE safe_budget_value(GetOr(budget_data, "activities", None))
        misc_from_breakdown ==
            Plus(Plus(safe_budget_value(GetOr(breakdown, "other", PyInt(0))),
                      safe_budget_value(GetOr(breakdown, "entertainment", PyInt(0)))),
                 safe_budget_value(GetOr(breakdown, "accommodation", PyInt(0))))
        miscellaneous == Plus(IF nested THEN misc_from_breakdown
                              ELSE safe_budget_value(GetOr(budget_data, "miscellaneous", None)),
                              safe_budget_value(GetOr(budget_data, "miscellaneous", None)))
        saved_total == safe_budget_value(GetOr(budget_data, "total", None))
        calculated_total == Plus(Plus(transportation, food), Plus(activities, miscellaneous))
    IN [transportation |-> transportation, food |-> food, activities |-> activities,
        miscellaneous |-> miscellaneous,
        total |-> IF KeepSavedTotal(saved_total, calculated_total)
                  THEN saved_total ELSE calculated_total]

-----------------------------------------------------------------------------
(* itinerary: selection, clustering and order reconciliation *)

\* A finite float may carry a fine part in c, <<PyInt(km), PyInt(cdeg)>>: the
\* number is then h / 2 degrees, plus km times the latitude difference that
\* is one kilometre along a meridian of a sphere of radius 6371 km, plus
\* cdeg / 100 degrees. A fine part is used only on a base strictly inside the
\* ranges the code tests, so every range test reads the same on h alone.
Fine(h, km, cdeg) == V("float", "", h, <<PyInt(km), PyInt(cdeg)>>)
KmOf(v) == IF Len(v.c) = 0 THEN 0 ELSE v.c[1].h \div 2
CentiDegOf(v) == 50 * v.h + (IF Len(v.c) = 0 THEN 0 ELSE v.c[2].h \div 2)

\* the nested helper is_valid_coordinate(lat, lng)
is_valid_coordinate(lat, lng) ==
    LET lat_float == ToFloat(lat)
        lng_float == ToFloat(lng)
    IN IF IsNone(lat) \/ IsNone(lng) THEN FALSE
       ELSE IF lat_float.t = "raise" \/ lng_float.t = "raise" THEN FALSE
       ELSE /\ lat_float # PyFloat(0)
            /\ lng_float # PyFloat(0)
            /\ Between(-90, lat_float, 90)
            /\ Between(-180, lng_float, 180)

\* list[idx] of a Python list: <<item>>, a negative idx counts from the end,
\* <<>> stands for IndexError
Subscript(list, idx) ==
    IF 0 <= idx /\ idx < Len(list.c) THEN <<list.c[idx + 1]>>
    ELSE IF -Len(list.c) <= idx /\ idx < 0 THEN <<list.c[Len(list.c) + idx + 1]>>
    ELSE <<>>

\* the guard of the first pass: idx < len(places)
IndexInRange(idx, places) == idx < Len(places.c)

\* the copy of a place made in the first pass: the entries whose value is not
\* None and whose str() is not 'undefined' in any case
StripUndefined(place) ==
    Dict(SelectSeq(place.c, LAMBDA e : /\ ~IsNone(e.c[1])
                                       /\ ~(/\ e.c[1].t \in {"str", "object"}
                                            /\ Lower(e.c[1].s) = "undefined")))

\* one iteration of the first pass over selected_ids: the places it appends
\* to valid_places. ValueError (int), IndexError (subscript) are caught and
\* the entry is skipped.
ResolveOne(places, idx_str) ==
    LET idx == IntOfStr(idx_str)
        place == Subscript(places, idx.h \div 2)
        cleaned_place == StripUndefined(place[1])
        geometry == GetOr(cleaned_place, "geometry", None)
        location == GetOr(geometry, "location", None)
    IN IF idx.t = "raise" THEN <<>>
       ELSE IF ~IndexInRange(idx.h \div 2, places) THEN <<>>
       ELSE IF place = <<>> THEN <<>>
       ELSE IF place[1].t # "dict" THEN <<>>
       ELSE IF /\ Truthy(geometry)
               /\ Truthy(location)
               /\ is_valid_coordinate(GetOr(location, "lat", None),
                                      GetOr(location, "lng", None))
       THEN <<cleaned_place>>
       ELSE <<>>

\* the first pass: valid_places
ResolveSelection(places, selected_ids) ==
    LET valid_places[i \in 0..Len(selected_ids)] ==
            IF i = 0 THEN <<>>
            ELSE valid_places[i - 1] \o ResolveOne(places, selected_ids[i])
    IN List(valid_places[Len(selected_ids)])

\* a gate that lets a single place through
TooFewLax(places) == Len(places.c) < 1

\* the two minimum-count gates: len(...) < 2
TooFew(places) == Len(places.c) < 2

MAX_DISTANCE_KM == 15

\* the latitude of a cleaned place
PlaceLat(place) == Get(Get(Get(place, "geometry"), "location"), "lat")
PlaceLng(place) == Get(Get(Get(place, "geometry"), "location"), "lng")

RECURSIVE SumKm(_)
SumKm(places) ==
    IF Len(places) = 0 THEN 0 ELSE KmOf(PlaceLat(Head(places))) + SumKm(Tail(places))

\* calculate_distance(center_lat, center_lng, lat, lng) times n, for the n
\* valid places of one longitude whose latitudes differ by whole kilometres
\* of arc: center_lat is the mean of the latitudes, delta_lng is 0 and the
\* haversine formula reduces to R * |lat - center_lat| in radians, which is
\* |km - total_km / n|. The arithmetic is exact here; the code computes it
\* in binary floating point.
DistanceTimesN(valid_places, place) ==
    LET n == Len(valid_places.c)
        d == n * KmOf(PlaceLat(place)) - SumKm(valid_places.c)
    IN IF d >= 0 THEN d ELSE -d

\* the test with twice the distance from the centre, which for two places
\* is the distance between them
WithinClusterPairwise(distance_n, n) == 2 * distance_n <= MAX_DISTANCE_KM * n

\* distance <= MAX_DISTANCE_KM, both sides times n
WithinCluster(distance_n, n) == distance_n <= MAX_DISTANCE_KM * n

\* the second pass: selected_places
ClusterFilter(valid_places) ==
    List(SelectSeq(valid_places.c,
                   LAMBDA place : WithinCluster(DistanceTimesN(valid_places, place),
                                                Len(valid_places.c))))

\* a reorder that does not compare the lengths
ReorderAppliesAlways(optimized_indices, selected_places) == TRUE

\* len(optimized_indices) == len(selected_places) - 2
ReorderApplies(optimized_indices, selected_places) ==
    Len(optimized_indices) = Len(selected_places.c) - 2

\* the order reconciliation: <<"ok", ordered_places>>, or <<"except", ...>>
\* when a subscript raised IndexError, which the outer except turns into 500
Reconcile(selected_places, route) ==
    LET n == Len(selected_places.c)
        optimized_indices == route.optimizedIntermediateWaypointIndex
        item(i) == IF optimized_indices[i] + 1 < n - 1
                   THEN Subscript(selected_places, optimized_indices[i] + 1)
                   ELSE <<>>
        raised == \E i \in 1..Len(optimized_indices) :
                      /\ optimized_indices[i] + 1 < n - 1
                      /\ Subscript(selected_places, optimized_indices[i] + 1) = <<>>
        reordered_middle[i \in 0..Len(optimized_indices)] ==
            IF i = 0 THEN <<>> ELSE reordered_middle[i - 1] \o item(i)
    IN IF ~route.has_index THEN <<"ok", selected_places>>
       ELSE IF ~ReorderApplies(optimized_indices, selected_places)
       THEN <<"ok", selected_places>>
       ELSE IF raised THEN <<"except", selected_places>>
       ELSE <<"ok", List(<<selected_places.c[1]>> \o reordered_middle[Len(optimized_indices)]
                         \o <<selected_places.c[n]>>)>>

-----------------------------------------------------------------------------
(* index and gpt_assist: the places near the searched city *)

\* (lat_diff ** 2 + lng_diff ** 2), in hundredths of a degree squared
CityDistanceSquared(place_lat, place_lng, city_lat, city_lng) ==
    LET lat_diff == CentiDegOf(place_lat) - CentiDegOf(city_lat)
        lng_diff == CentiDegOf(place_lng) - CentiDegOf(city_lng)
    IN lat_diff * lat_diff + lng_diff * lng_diff

\* 0.3 degrees, in hundredths of a degree
CityRadius == 30

\* distance < 0.3, both sides squared; exact here, floating point in the code
NearCity(distance_squared) == distance_squared < CityRadius * CityRadius

\* the loop that keeps the places near the city centre
CityFilter(places, city_lat, city_lng) ==
    List(SelectSeq(places.c,
                   LAMBDA place :
                       /\ Truthy(GetOr(GetOr(place, "geometry", Dict(<<>>)), "location", None))
                       /\ NearCity(CityDistanceSquared(PlaceLat(place), PlaceLng(place),
                                                       city_lat, city_lng))))

\* gpt_assist: the first place of each place_id, places without one dropped;
\* a dict keeps the position of the first insertion of a key
RECURSIVE UniquePlaces(_, _)
UniquePlaces(all_places, seen) ==
    IF Len(all_places) = 0 THEN <<>>
    ELSE LET place == Head(all_places)
             place_id == GetOr(place, "place_id", None)
         IN IF Truthy(place_id) /\ place_id \notin seen
            THEN <<place>> \o UniquePlaces(Tail(all_places), seen \cup {place_id})
            ELSE UniquePlaces(Tail(all_places), seen)

-----------------------------------------------------------------------------
(* the save routes *)

\* uuid.uuid4() and the document id of Firestore: fresh texts, numbered by
\* the trips handed over so far
NewId(prefix, n) == prefix \o ToString(n)

\* datetime.now() formatted, and the default trip name built from it
Now == Str("2026-11-06 07:00")
DefaultName == Str("Trip 11/06/2026")

\* the itinerary dict of save_itinerary
SaveItineraryTrip(data, id) ==
    Dict(<<Entry("id", Str(id)),
           Entry("name", GetOr(data, "name", DefaultName)),
           Entry("places", GetOr(data, "places", List(<<>>))),
           Entry("route_info", GetOr(data, "route_info", Dict(<<>>))),
           Entry("created_at", Now),
           Entry("city", GetOr(data, "city", Str("Unknown"))),
           Entry("total_places", PyInt(Len(GetOr(data, "places", List(<<>>)).c))),
           Entry("total_distance", GetOr(data, "total_distance", PyInt(0))),
           Entry("total_duration", GetOr(data, "total_duration", PyInt(0))),
           Entry("budget_estimate", GetOr(data, "budget_estimate", Dict(<<>>))),
           Entry("polyline", GetOr(data, "polyline", Str(""))),
           Entry("gpt_prompt", GetOr(data, "gpt_prompt", Str(""))),
           Entry("interests", GetOr(data, "interests", List(<<>>)))>>)

\* the itinerary_data dict of firebase_save_itinerary, before cleaning
FirebaseSaveTrip(data) ==
    Dict(<<Entry("city", GetOr(data, "city", Str(""))),
           Entry("places", GetOr(data, "places", List(<<>>))),
           Entry("total_distance", GetOr(data, "total_distance", PyInt(0))),
           Entry("total_duration", GetOr(data, "total_duration", PyInt(0))),
           Entry("budget_estimate", GetOr(data, "budget_estimate", Dict(<<>>))),
           Entry("polyline", GetOr(data, "polyline", Str(""))),
           Entry("gpt_prompt", GetOr(data, "gpt_prompt", Str(""))),
           Entry("interests", GetOr(data, "interests", List(<<>>))),
           Entry("tags", GetOr(data, "tags", List(<<>>)))>>)

\* the trip_data dict of enhanced_save_itinerary, before cleaning
EnhancedSaveTrip(data, id) ==
    Dict(<<Entry("id", Str(id)),
           Entry("city", GetOr(data, "city", Str(""))),
           Entry("places", GetOr(data, "places", List(<<>>))),
           Entry("total_distance", GetOr(data, "total_distance", PyInt(0))),
           Entry("total_duration", GetOr(data, "total_duration", PyInt(0))),
           Entry("budget_estimate", GetOr(data, "budget_estimate", Dict(<<>>))),
           Entry("created_at", Now),
           Entry("polyline", GetOr(data, "polyline", Str(""))),
           Entry("gpt_prompt", GetOr(data, "gpt_prompt", Str(""))),
           Entry("interests", GetOr(data, "interests", List(<<>>)))>>)

\* FirebaseManager.save_itinerary(user_id, itinerary_data): the document
\* written, as a sequence; no document when itinerary_data is not a dict
\* (AttributeError, caught) or when the write fails. The two datetime fields
\* of the document are left out.
FirebaseDocument(itinerary_data, doc_id, outcome) ==
    IF itinerary_data.t # "dict" \/ outcome # "ok" THEN <<>>
    ELSE <<[id |-> doc_id,
            data |-> Dict(<<Entry("user_id", Str("anonymous")),
                            Entry("name", GetOr(itinerary_data, "name", DefaultName)),
                            Entry("city", GetOr(itinerary_data, "city", Str("Unknown"))),
                            Entry("places", GetOr(itinerary_data, "places", List(<<>>))),
                            Entry("total_distance", GetOr(itinerary_data, "total_distance", PyInt(0))),
                            Entry("total_duration", GetOr(itinerary_data, "total_duration", PyInt(0))),
                            Entry("budget_estimate",
                                  GetOr(itinerary_data, "budget_estimate", Dict(<<>>))),
                            Entry("tags", GetOr(itinerary_data, "tags", List(<<>>))),
                            Entry("polyline", GetOr(itinerary_data, "polyline", Str(""))),
                            Entry("gpt_prompt", GetOr(itinerary_data, "gpt_prompt", Str(""))),
                            Entry("interests", GetOr(itinerary_data, "interests", List(<<>>))),
                            Entry("total_places",
                                  PyInt(Len(GetOr(itinerary_data, "places", List(<<>>)).c))),
                            Entry("route_info", GetOr(itinerary_data, "route_info", Dict(<<>>)))>>)]>>

\* saved_trips[-10:]
LastTen(saved_trips) ==
    IF Len(saved_trips) > 10
    THEN SubSeq(saved_trips, Len(saved_trips) - 9, Len(saved_trips))
    ELSE saved_trips

\* d[key] = value on a dict
SetItem(d, key, value) ==
    IF Has(d, key)
    THEN Dict([i \in 1..Len(d.c) |-> IF d.c[i].s = key THEN Entry(key, value) ELSE d.c[i]])
    ELSE Dict(Append(d.c, Entry(key, value)))

-----------------------------------------------------------------------------
(* the load routes *)

\* the flat dict that clean_budget_data returns
FlatValue(r) ==
    Dict(<<Entry("transportation", r.transportation), Entry("food", r.food),
           Entry("activities", r.activities), Entry("miscellaneous", r.miscellaneous),
           Entry("total", r.total)>>)

\* the dict that estimate_budget returns
BudgetValue(r) ==
    Dict(<<Entry("total", PyInt(r.total)),
           Entry("breakdown",
                 Dict(<<Entry("transportation", PyInt(r.breakdown.transportation)),
                        Entry("food", PyInt(r.breakdown.food)),
                        Entry("activities", PyInt(r.breakdown.activities)),
                        Entry("accommodation", PyInt(r.breakdown.accommodation))>>)),
           Entry("miscellaneous", PyInt(r.miscellaneous))>>)

\* view_saved_trip: total is a number greater than 0 (nan > 0 is False)
has_valid_total(budget_estimate) ==
    LET total == GetOr(budget_estimate, "total", None)
    IN /\ total.t \in {"int", "float"}
       /\ \/ total.s = "inf"
          \/ total.s = "" /\ total.h > 0

\* view_saved_trip: breakdown is a dict that is not empty
has_valid_breakdown(budget_estimate) ==
    LET breakdown == GetOr(budget_estimate, "breakdown", None)
    IN breakdown.t = "dict" /\ Len(breakdown.c) > 0

\* view_saved_trip: the saved estimate is kept and cleaned, not recalculated
UseSavedBudget(budget_estimate) ==
    has_valid_total(budget_estimate) /\ has_valid_breakdown(budget_estimate)

\* the first trip of the session's list with that id, as a sequence; "raise"
\* when a trip before it has no 'id' (KeyError) or is no dict (TypeError)
RECURSIVE FindTrip(_, _)
FindTrip(saved_trips, itinerary_id) ==
    IF Len(saved_trips) = 0 THEN <<>>
    ELSE IF ~Has(Head(saved_trips), "id") THEN <<Raised("KeyError")>>
    ELSE IF Get(Head(saved_trips), "id") = Str(itinerary_id) THEN <<Head(saved_trips)>>
    ELSE FindTrip(Tail(saved_trips), itinerary_id)

\* FirebaseManager.get_itinerary_by_id: the document's data with its id, or
\* None
get_itinerary_by_id(docs, itinerary_id) ==
    LET found == SelectSeq(docs, LAMBDA doc : doc.id = itinerary_id)
    IN IF Len(found) = 0 THEN None
       ELSE SetItem(found[1].data, "id", Str(found[1].id))

\* FirebaseManager.get_user_itineraries: the documents of the user with id
\* and created_at; all documents here are of one user and of one time, and
\* the sort keeps their order
get_user_itineraries(docs) ==
    List([i \in 1..Len(docs) |->
            SetItem(SetItem(docs[i].data, "id", Str(docs[i].id)), "created_at", Now)])

-----------------------------------------------------------------------------
(* Inputs *)

MaxLen == 2
MaxOuter == 2

LeafStrings == {"Louvre", "undefined", "NULL", "Undefined St"}
Leaves == {None, PyInt(5)} \cup {Str(x) : x \in LeafStrings}
InnerLeaves == {None, PyInt(5), Str("undefined")}
Keys == {"a", "b"}

SanitizeInputs ==
    LET flat == {List(q) : q \in SeqsUpTo(Leaves, MaxLen)} \cup DictsOver(Keys, Leaves, MaxLen)
        inner == {List(q) : q \in SeqsUpTo({PyInt(5), Str("undefined")}, MaxLen)}
                 \cup DictsOver({"a"}, InnerLeaves, 1)
                 \cup {List(<<Str("Undefined St")>>),
                       Dict(<<Entry("a", Str("undefined")), Entry("b", None)>>),
                       Dict(<<Entry("undefined", PyInt(5)), Entry("b", Str("NULL"))>>)}
        items == InnerLeaves \cup inner
        nested == {List(q) : q \in SeqsUpTo(items, MaxOuter)}
                  \cup DictsOver(Keys, items, MaxOuter)
    IN Leaves \cup {NaN, UndefinedObj, Obj("nan"), Obj("Undefined"), List(<<UndefinedObj>>),
                    List(<<Obj("nan"), PyInt(5)>>)}
       \cup flat \cup nested

\* a field that the record does not have
Absent == V("absent", "", 0, <<>>)
Field(k, v) == IF v.t = "absent" THEN <<>> ELSE <<Entry(k, v)>>

Geometry(lat, lng) ==
    Dict(<<Entry("location", Dict(Field("lat", lat) \o Field("lng", lng)))>>)
RawPlace(name, lat, lng, optional) ==
    Dict(Field("name", name) \o <<Entry("geometry", Geometry(lat, lng))>> \o optional)

RawNames == {Absent, Str("Louvre"), Str("NULL"), PyInt(7)}
RawLats == {Absent, PyInt(45), PyInt(0), PyFloat(0), PyInt(91), PyInt(-90), PyFloat(-181),
            NaN, Str("45"), Str("0"), Str("abc")}
RawLngs == {PyInt(9), PyInt(0), PyInt(-180), PyInt(181), Inf, Str("abc")}
RawOptionals ==
    {<<>>,
     <<Entry("rating", PyFloat(9))>>, <<Entry("rating", PyInt(6))>>,
     <<Entry("rating", Str("abc"))>>, <<Entry("rating", NaN)>>,
     <<Entry("rating", List(<<>>))>>,
     <<Entry("price_level", PyInt(2))>>, <<Entry("price_level", PyInt(5))>>,
     <<Entry("price_level", PyInt(-1))>>, <<Entry("price_level", Str("2"))>>,
     <<Entry("price_level", Str("4.5"))>>, <<Entry("price_level", PyFloat(9))>>,
     <<Entry("price_level", Inf)>>, <<Entry("price_level", NaN)>>,
     <<Entry("types", List(<<Str("restaurant")>>))>>,
     <<Entry("types", List(<<PyInt(5), Str("museum")>>))>>,
     <<Entry("types", Str("abc"))>>,
     <<Entry("vicinity", Str("Main St"))>>, <<Entry("vicinity", PyInt(5))>>,
     <<Entry("vicinity", Str("Undefined St"))>>,
     <<Entry("formatted_address", Str("undefined"))>>,
     <<Entry("place_id", Str("ChIJ1"))>>, <<Entry("place_id", None)>>,
     <<Entry("place_id", Str("ChIJ1")), Entry("rating", PyInt(4)),
       Entry("price_level", PyInt(3)), Entry("types", List(<<Str("cafe")>>)),
       Entry("vicinity", Str("Main St"))>>}

RawPlaces ==
    {RawPlace(name, lat, lng, optional) :
        name \in RawNames, lat \in RawLats, lng \in RawLngs, optional \in RawOptionals}

\* records with a malformed geometry, and entries that are not records
OddPlaces ==
    {Dict(<<Entry("name", Str("Louvre"))>>),
     Dict(<<Entry("name", Str("Louvre")), Entry("geometry", Str("abc"))>>),
     Dict(<<Entry("name", Str("Louvre")),
            Entry("geometry", Dict(<<Entry("location", List(<<PyInt(45), PyInt(9)>>))>>))>>),
     Dict(<<Entry("name", Str("Louvre")),
            Entry("geometry", Dict(<<Entry("location",
                Dict(<<Entry("lat", List(<<>>)), Entry("lng", PyInt(9))>>))>>))>>),
     Str("Louvre"), None, UndefinedObj}

\* the records that batches are made of
MaxBatch == 2
BatchPlaces ==
    {RawPlace(Str("Louvre"), PyInt(45), PyInt(9), <<Entry("place_id", Str("ChIJ1"))>>),
     RawPlace(Str("Cafe"), PyFloat(91), PyInt(-180), <<Entry("rating", PyInt(6))>>),
     RawPlace(Str("Louvre"), PyInt(0), PyInt(9), <<>>),
     RawPlace(Str("NULL"), PyInt(45), PyInt(9), <<>>),
     RawPlace(Str("Cafe"), PyInt(45), PyInt(9), <<Entry("vicinity", Str("Undefined St"))>>),
     RawPlace(Str("Cafe"), PyInt(45), PyInt(9), <<Entry("price_level", Inf)>>),
     None}

PlaceInputs ==
    {List(<<p>>) : p \in RawPlaces \cup OddPlaces}
    \cup {List(q) : q \in SeqsUpTo(BatchPlaces, MaxBatch)}
    \cup {None, Str("Louvre"), Dict(<<>>)}

\* places as estimate_budget receives them
MaxPlaces == 2
BudgetTypes ==
    {<<Str("restaurant"), Str("tourist_attraction")>>, <<Str("museum"), Str("cafe")>>,
     <<Str("park"), Str("zoo")>>, <<Str("hotel"), Str("aquarium")>>, <<Str("lodging")>>,
     <<Str("park")>>}
BudgetPriceLevels == {Absent} \cup {PyInt(p) : p \in {-6, -1, 0, 3, 5}}
BudgetPlaces ==
    {Dict(Field("price_level", p) \o <<Entry("types", List(ts))>>) :
        p \in BudgetPriceLevels, ts \in BudgetTypes}
    \cup {Dict(<<>>)}
EstimateInputs == {List(q) : q \in SeqsUpTo(BudgetPlaces, MaxPlaces)}

\* saved budget estimates as clean_budget_data receives them
MaxTotal == 27
SavedTotals ==
    {Absent, None, PyInt(-3), PyFloat(25), Str("9"), Str("NaN"), Str("abc"), Inf}
    \cup {PyInt(n) : n \in 0..MaxTotal}
FlatBudgets ==
    {Dict(Field("transportation", tr) \o Field("food", fo) \o Field("activities", ac)
          \o Field("miscellaneous", mi) \o Field("total", to)) :
        tr \in {PyInt(2), PyInt(-3), Str("abc")},
        fo \in {Absent, None, PyInt(4), PyFloat(9)},
        ac \in {PyInt(0), Str("9"), NaN},
        mi \in {Absent, PyInt(1)},
        to \in SavedTotals}
NestedBudgets ==
    {Dict(<<Entry("breakdown", Dict(Field("transportation", tr) \o Field("food", fo)
                                    \o ac \o Field("accommodation", acc)))>>
          \o Field("miscellaneous", mi) \o Field("total", to)) :
        tr \in {PyInt(2), Str("undefined")},
        fo \in {PyInt(4), PyFloat(-1)},
        ac \in {<<>>, <<Entry("activities", PyInt(3))>>, <<Entry("attractions", Str("9"))>>,
                <<Entry("other", PyInt(1)), Entry("entertainment", Str("-3"))>>},
        acc \in {Absent, PyInt(6), Str("-inf")},
        mi \in {Absent, PyInt(1), Str("abc")},
        to \in {Absent, PyInt(0), PyInt(6), PyInt(9), PyInt(14), Str("100"), NegInf}}
\* the same five amounts in the nested and in the flat shape
StandardAmounts ==
    {<<PyInt(2), PyInt(4), PyInt(ac), PyInt(mi)>> : ac \in {0, 3}, mi \in {0, 1, 7}}
NestedOf(a, to) ==
    Dict(<<Entry("breakdown", Dict(<<Entry("transportation", a[1]), Entry("food", a[2]),
                                      Entry("activities", a[3]),
                                      Entry("miscellaneous", a[4])>>)),
           Entry("total", to)>>)
FlatOf(a, to) ==
    Dict(<<Entry("transportation", a[1]), Entry("food", a[2]), Entry("activities", a[3]),
           Entry("miscellaneous", a[4]), Entry("total", to)>>)
SumOf(a) == Plus(Plus(a[1], a[2]), Plus(a[3], a[4]))
StandardBudgets ==
    {NestedOf(a, SumOf(a)) : a \in StandardAmounts}
    \cup {FlatOf(a, SumOf(a)) : a \in StandardAmounts}
BudgetInputs ==
    FlatBudgets \cup NestedBudgets \cup StandardBudgets
    \cup {None, Str("abc"), List(<<>>), PyInt(5), Dict(<<>>),
          Dict(<<Entry("breakdown", Str("abc")), Entry("food", PyInt(4))>>),
          Dict(<<Entry("breakdown", Dict(<<>>)), Entry("food", PyInt(4))>>)}

\* itinerary requests: places on the meridian of longitude 9, at 45 degrees
\* north plus a whole number of kilometres
MaxSelected == 3

ItineraryPlace(name, km, type, price_level) ==
    RawPlace(Str(name), Fine(90, km, 0), PyInt(9),
             <<Entry("place_id", Str("id-" \o name)), Entry("types", List(<<Str(type)>>))>>
             \o Field("price_level", price_level))
InvalidPlace == RawPlace(Str("Bad"), PyInt(0), PyInt(9), <<>>)
MarkedPlace == RawPlace(Str("Cafe"), PyInt(45), PyInt(9), <<Entry("vicinity", Str("Undefined St"))>>)
PlacesA == ItineraryPlace("A", 0, "restaurant", PyInt(1))
PlacesB == ItineraryPlace("B", 0, "museum", Absent)
PlaceLists ==
    {List(<<PlacesA, PlacesB, ItineraryPlace("C", 20, "park", Absent),
            ItineraryPlace("D", 30, "cafe", PyInt(3))>>),
     List(<<PlacesA, ItineraryPlace("E", 10, "zoo", PyInt(0)),
            ItineraryPlace("F", 14, "hotel", Absent), ItineraryPlace("G", 16, "cafe", Absent)>>),
     List(<<PlacesA, InvalidPlace, ItineraryPlace("H", 31, "museum", PyInt(4)),
            ItineraryPlace("I", 40, "lodging", PyInt(2))>>),
     List(<<PlacesA, PlacesB, MarkedPlace>>)}
IdxStrings == {"0", "1", "2", "-1", "7", "x"}
LongSelections ==
    {<<"0", "1", "2", "3">>, <<"3", "2", "1", "0">>, <<"0", "2", "1", "3">>,
     <<"1", "1", "0", "-1">>, <<"0", "3">>, <<"-9", "0", "3">>, <<"1", "-9">>}
ItineraryRequests ==
    {[route |-> "itinerary", all_places_json |-> all_places_json, selected_ids |-> selected_ids] :
        all_places_json \in PlaceLists,
        selected_ids \in SeqsUpTo(IdxStrings, MaxSelected) \cup LongSelections}
    \cup {[route |-> "itinerary", all_places_json |-> x, selected_ids |-> <<"0", "1">>] :
            x \in {Absent, Raised("JSONDecodeError")}}

\* what the Routes API may answer: status 0 stands for an exception raised
\* by requests.post
NoRoute ==
    [status |-> 0, has_routes |-> FALSE, has_index |-> FALSE,
     optimizedIntermediateWaypointIndex |-> <<>>]
OptimizedOrders ==
    {<<>>, <<0>>, <<1>>, <<-1>>, <<-5>>, <<0, 1>>, <<1, 0>>, <<0, 0>>, <<1, 2>>,
     <<0, 1, 2>>}
RouteResponses ==
    {NoRoute, [NoRoute EXCEPT !.status = 403], [NoRoute EXCEPT !.status = 200],
     [NoRoute EXCEPT !.status = 200, !.has_routes = TRUE]}
    \cup {[status |-> 200, has_routes |-> TRUE, has_index |-> TRUE,
           optimizedIntermediateWaypointIndex |-> ix] : ix \in OptimizedOrders}

\* search requests: the results of the Places API lie around 48 degrees
\* north, 9 degrees east, in hundredths of a degree; the geocoded city centre
\* is that point, or None when geocoding fails
MaxResults == 2
SearchPlace(name, dlat, dlng) ==
    Dict(<<Entry("name", Str(name)), Entry("place_id", Str(name)),
           Entry("geometry", Geometry(Fine(96, 0, dlat), Fine(18, 0, dlng)))>>)
SearchPlaces ==
    {SearchPlace("A", 0, 0), SearchPlace("B", 29, 0), SearchPlace("C", 30, 0),
     SearchPlace("D", 18, -24), SearchPlace("E", 0, 31), SearchPlace("F", -25, 17),
     RawPlace(Str("G"), Fine(96, 0, 10), Fine(18, 0, 10), <<>>)}
SearchRequests ==
    {[route |-> r, results |-> List(q), city_lat |-> c[1], city_lng |-> c[2]] :
        r \in {"index", "gpt_assist"},
        q \in SeqsUpTo(SearchPlaces, MaxResults),
        c \in {<<Fine(96, 0, 0), Fine(18, 0, 0)>>, <<None, None>>}}

\* save requests: the JSON body, and how Firebase behaves: "disabled" (the
\* import failed at start-up), "ok", "fail" (the write raises inside the
\* manager, which returns None) or "raise" (get_firebase_manager raises)
SavedPlace(rating) ==
    Dict(<<Entry("name", Str("Louvre")),
           Entry("geometry", Geometry(PyInt(45), PyInt(9)))>> \o Field("rating", rating))
SaveBodies ==
    {Dict(Field("name", name) \o Field("city", city) \o Field("places", saved_places)
          \o Field("budget_estimate", budget)) :
        name \in {Absent, Str("Paris trip")},
        city \in {Absent, Str("Paris"), Str("undefined"), Str("Undefined St")},
        saved_places \in {Absent, List(<<SavedPlace(Absent)>>), List(<<SavedPlace(None)>>),
                          List(<<SavedPlace(PyInt(5)), Str("NULL")>>)},
        budget \in {Absent, NestedOf(<<PyInt(2), PyInt(4), PyInt(0), PyInt(1)>>, NaN)}}
FirebaseOutcomes == {"disabled", "ok", "fail", "raise"}
SaveRoutes == {"save_itinerary", "firebase_save_itinerary", "enhanced_save_itinerary"}
OldTrip == SaveItineraryTrip(Dict(<<Entry("name", Str("Old trip"))>>), "old")
Sessions == {Absent, List(<<OldTrip>>), List([i \in 1..10 |-> OldTrip])}
SaveRequests ==
    {[route |-> r, data |-> data, firebase |-> outcome] :
        r \in SaveRoutes, data \in SaveBodies, outcome \in FirebaseOutcomes}

\* load requests: a trip saved before, with a budget estimate of each shape
\* (nested, flat, without total, with a corrupted total, none), in the
\* session or in Firebase
SavedBudgets ==
    {Absent,
     NestedOf(<<PyInt(25), PyInt(45), PyInt(20), PyInt(9)>>, PyInt(99)),
     FlatOf(<<PyInt(25), PyInt(45), PyInt(20), PyInt(9)>>, PyInt(99)),
     Dict(<<Entry("breakdown", Dict(<<Entry("transportation", PyInt(25)),
                                      Entry("food", PyInt(45))>>))>>),
     NestedOf(<<PyInt(25), PyInt(45), PyInt(20), PyInt(9)>>, NaN),
     NestedOf(<<PyInt(25), Str("undefined"), PyFloat(-1), PyInt(9)>>, PyInt(30)),
     Dict(<<Entry("total", Str("99"))>>)}
SavedPlaceLists ==
    {List(<<>>),
     List(<<PlacesA>>),
     List(<<PlacesA, ItineraryPlace("E", 10, "zoo", PyInt(-6))>>)}
SavedTripBodies ==
    {Dict(<<Entry("name", Str("Paris trip")), Entry("places", saved_places)>>
          \o Field("budget_estimate", budget)) :
        saved_places \in SavedPlaceLists, budget \in SavedBudgets}
LoadRoutes == {"get_saved_itineraries", "load_itinerary", "view_saved_trip"}
LoadRequests ==
    {[route |-> r, itinerary_id |-> id, firebase |-> outcome] :
        r \in LoadRoutes, id \in {"uuid-1", "doc-1", "none"}, outcome \in FirebaseOutcomes}
StoredSessions ==
    {List(<<SaveItineraryTrip(body, "uuid-1")>>) : body \in SavedTripBodies}
    \cup {Absent, List(<<OldTrip>>),
          List(<<deep_clean_data(EnhancedSaveTrip(Dict(<<Entry("places", List(<<PlacesA>>))>>),
                                                  "uuid-1"))>>)}
StoredDocuments ==
    {FirebaseDocument(SaveItineraryTrip(body, "uuid-1"), "doc-1", "ok") :
        body \in SavedTripBodies}
    \cup {<<>>}

Requests == ItineraryRequests \cup SearchRequests \cup SaveRequests \cup LoadRequests

Calls ==
    {[op |-> "deep_clean_data", arg |-> x] : x \in SanitizeInputs}
    \cup {[op |-> "clean_place_data", arg |-> x] : x \in PlaceInputs}
    \cup {[op |-> "estimate_budget", arg |-> x] : x \in EstimateInputs}
    \cup {[op |-> "clean_budget_data", arg |-> x] : x \in BudgetInputs}

-----------------------------------------------------------------------------
(* Specification *)

\* no request is being handled
NoResponse == [status |-> 0, body |-> "", data |-> None]
NoLocals ==
    [places |-> None, valid_places |-> None, selected_places |-> None, route |-> NoRoute,
     ordered_places |-> None, budget_estimate |-> None]
AppIdle ==
    /\ request = [route |-> "none"]
    /\ hpc = "idle"
    /\ local = NoLocals
    /\ response = NoResponse
    /\ route_calls = 0
    /\ steps = <<>>
    /\ session = List(<<>>)
    /\ firebase = <<>>
    /\ handed = <<>>

\* no collaborative trip manager has been constructed
NoThread == [pc |-> "idle", n |-> 0]
CollabIdle ==
    /\ firestore_db = [client |-> FALSE]
    /\ memory_store = <<>>
    /\ heap = <<>>
    /\ threads = <<NoThread, NoThread>>
    /\ acked = {}

Init ==
    /\ call \in Calls
    /\ ret = None
    /\ exc = ""
    /\ pc = "call"
    /\ AppIdle
    /\ CollabIdle

\* deep_clean_data(obj)
DeepCleanData ==
    /\ pc = "call"
    /\ call.op = "deep_clean_data"
    /\ ret' = deep_clean_data(call.arg)
    /\ pc' = "return"
    /\ UNCHANGED <<call, exc>>
    /\ UNCHANGED appvars
    /\ UNCHANGED collabvars

\* clean_place_data(places)
CleanPlaceData ==
    /\ pc = "call"
    /\ call.op = "clean_place_data"
    /\ ret' = clean_place_data(call.arg)
    /\ pc' = "return"
    /\ UNCHANGED <<call, exc>>
    /\ UNCHANGED appvars
    /\ UNCHANGED collabvars

\* estimate_budget(places): returns the estimate or raises IndexError
EstimateBudget ==
    /\ pc = "call"
    /\ call.op = "estimate_budget"
    /\ LET r == estimate_budget(call.arg)
       IN IF r.raised
          THEN ret' = None /\ exc' = "IndexError"
          ELSE /\ ret' = [total |-> r.total, breakdown |-> r.breakdown,
                          miscellaneous |-> r.miscellaneous]
               /\ exc' = exc
    /\ pc' = "return"
    /\ UNCHANGED call
    /\ UNCHANGED appvars
    /\ UNCHANGED collabvars

\* clean_budget_data(budget_data)
CleanBudgetData ==
    /\ pc = "call"
    /\ call.op = "clean_budget_data"
    /\ ret' = clean_budget_data(call.arg)
    /\ pc' = "return"
    /\ UNCHANGED <<call, exc>>
    /\ UNCHANGED appvars
    /\ UNCHANGED collabvars

Next ==
    \/ DeepCleanData
    \/ CleanPlaceData
    \/ EstimateBudget
    \/ CleanBudgetData

Spec == Init /\ [][Next]_vars

-----------------------------------------------------------------------------
(* Specification of the request handlers *)

AppInit ==
    /\ CollabIdle
    /\ call = [op |-> "none", arg |-> None]
    /\ ret = None
    /\ exc = ""
    /\ pc = "idle"
    /\ request \in Requests
    /\ hpc = "start"
    /\ local = NoLocals
    /\ response = NoResponse
    /\ route_calls = 0
    /\ steps = <<>>
    /\ \/ /\ request.route \in SaveRoutes
          /\ session \in Sessions
          /\ firebase = <<>>
       \/ /\ request.route \in LoadRoutes
          /\ \/ session \in StoredSessions /\ firebase = <<>>
             \/ session = Absent /\ firebase \in StoredDocuments
       \/ /\ request.route \notin SaveRoutes \cup LoadRoutes
          /\ session = List(<<>>)
          /\ firebase = <<>>
    /\ handed = <<>>

\* the texts of the responses of itinerary()
NoPlacesData == "Error: No places data available"
InvalidJson == "Error: Invalid JSON data"
InsufficientPlaces ==
    "Please select at least 2 places with valid coordinates to build an itinerary."
InsufficientAfterClustering ==
    "After geographic clustering, less than 2 places remain. Please select places that are closer together."
RoutingFailed == "Error getting directions"
NoRoutesFound == "No routes found"
ItineraryError == "Error building itinerary"
ItineraryPage == "itinerary.html"

\* return body, status
Respond(body, status) ==
    /\ response' = [status |-> status, body |-> body, data |-> None]
    /\ hpc' = "done"

\* where the handler goes after the Routes API answered
AfterRouteRetrying(ok) == IF ok THEN "reconcile" ELSE "route"
AfterRoute(ok) == IF ok THEN "reconcile" ELSE "done"

\* itinerary(): the form is read, all_places_json parsed and cleaned
ItineraryParse ==
    /\ request.route = "itinerary"
    /\ hpc = "start"
    /\ steps' = Append(steps, "parse")
    /\ IF request.all_places_json.t = "absent"
       THEN Respond(NoPlacesData, 400) /\ UNCHANGED local
       ELSE IF request.all_places_json.t = "raise"
       THEN Respond(InvalidJson, 400) /\ UNCHANGED local
       ELSE /\ local' = [local EXCEPT !.places = clean_place_data(request.all_places_json)]
            /\ hpc' = "resolve"
            /\ UNCHANGED response
    /\ UNCHANGED <<request, route_calls>>
    /\ UNCHANGED funvars
    /\ UNCHANGED collabvars
    /\ UNCHANGED storevars

\* itinerary(): the first pass over selected_ids
ItineraryResolve ==
    /\ request.route = "itinerary"
    /\ hpc = "resolve"
    /\ steps' = Append(steps, "resolve")
    /\ local' = [local EXCEPT !.valid_places =
                                ResolveSelection(local.places, request.selected_ids)]
    /\ hpc' = "gate_valid"
    /\ UNCHANGED <<request, response, route_calls>>
    /\ UNCHANGED funvars
    /\ UNCHANGED collabvars
    /\ UNCHANGED storevars

\* itinerary(): if len(valid_places) < 2
ItineraryGateValid ==
    /\ request.route = "itinerary"
    /\ hpc = "gate_valid"
    /\ steps' = Append(steps, "gate_valid")
    /\ IF TooFew(local.valid_places)
       THEN Respond(InsufficientPlaces, 400)
       ELSE hpc' = "cluster" /\ UNCHANGED response
    /\ UNCHANGED local
    /\ UNCHANGED <<request, route_calls>>
    /\ UNCHANGED funvars
    /\ UNCHANGED collabvars
    /\ UNCHANGED storevars

\* itinerary(): the second pass, the places near the centre of valid_places
ItineraryCluster ==
    /\ request.route = "itinerary"
    /\ hpc = "cluster"
    /\ steps' = Append(steps, "cluster")
    /\ local' = [local EXCEPT !.selected_places = ClusterFilter(local.valid_places)]
    /\ hpc' = "gate_cluster"
    /\ UNCHANGED <<request, response, route_calls>>
    /\ UNCHANGED funvars
    /\ UNCHANGED collabvars
    /\ UNCHANGED storevars

\* itinerary(): if len(selected_places) < 2
ItineraryGateCluster ==
    /\ request.route = "itinerary"
    /\ hpc = "gate_cluster"
    /\ steps' = Append(steps, "gate_cluster")
    /\ IF TooFew(local.selected_places)
       THEN Respond(InsufficientAfterClustering, 400)
       ELSE hpc' = "route" /\ UNCHANGED response
    /\ UNCHANGED local
    /\ UNCHANGED <<request, route_calls>>
    /\ UNCHANGED funvars
    /\ UNCHANGED collabvars
    /\ UNCHANGED storevars

\* itinerary(): requests.post to the Routes API and the tests of its answer
ItineraryRoute ==
    /\ request.route = "itinerary"
    /\ hpc = "route"
    /\ steps' = Append(steps, "route")
    /\ route_calls' = route_calls + 1
    /\ \E routes_data \in RouteResponses :
          /\ local' = [local EXCEPT !.route = routes_data]
          /\ hpc' = AfterRoute(routes_data.status = 200 /\ routes_data.has_routes)
          /\ response' =
                IF routes_data.status = 0
                THEN [status |-> 500, body |-> ItineraryError, data |-> None]
                ELSE IF routes_data.status # 200
                THEN [status |-> 400, body |-> RoutingFailed, data |-> None]
                ELSE IF ~routes_data.has_routes
                THEN [status |-> 400, body |-> NoRoutesFound, data |-> None]
                ELSE response
    /\ UNCHANGED <<request>>
    /\ UNCHANGED funvars
    /\ UNCHANGED collabvars
    /\ UNCHANGED storevars

\* itinerary(): ordered_places from the optimized waypoint order
ItineraryReconcile ==
    /\ request.route = "itinerary"
    /\ hpc = "reconcile"
    /\ steps' = Append(steps, "reconcile")
    /\ LET r == Reconcile(local.selected_places, local.route)
       IN IF r[1] = "except"
          THEN Respond(ItineraryError, 500) /\ UNCHANGED local
          ELSE /\ local' = [local EXCEPT !.ordered_places = r[2]]
               /\ hpc' = "budget"
               /\ UNCHANGED response
    /\ UNCHANGED <<request, route_calls>>
    /\ UNCHANGED funvars
    /\ UNCHANGED collabvars
    /\ UNCHANGED storevars

\* itinerary(): the budget estimate and the template data, both deep-cleaned;
\* of the template data only places and budget_estimate are kept here
ItineraryBudget ==
    /\ request.route = "itinerary"
    /\ hpc = "budget"
    /\ steps' = Append(steps, "budget")
    /\ LET r == estimate_budget(local.ordered_places)
           cleaned == deep_clean_data(BudgetValue(r))
           template_data == deep_clean_data(Dict(<<Entry("places", local.ordered_places),
                                                   Entry("budget_estimate", cleaned)>>))
       IN IF r.raised \/ template_data.t # "dict"
          THEN Respond(ItineraryError, 500) /\ UNCHANGED local
          ELSE /\ local' = [local EXCEPT !.budget_estimate = cleaned]
               /\ response' = [status |-> 200, body |-> ItineraryPage, data |-> template_data]
               /\ hpc' = "done"
    /\ UNCHANGED <<request, route_calls>>
    /\ UNCHANGED funvars
    /\ UNCHANGED collabvars
    /\ UNCHANGED storevars

\* the texts of the index page
IndexPage == "index.html"
CityNotFound == "Could not find the city you mentioned. Please try again."

\* the city filter of the two search routes on the cleaned places: applied
\* when the city's coordinates are truthy (and, in gpt_assist, when there are
\* places at all)
NearCityOnly(cleaned, filter_empty) ==
    IF /\ Truthy(request.city_lat)
       /\ Truthy(request.city_lng)
       /\ (filter_empty \/ Truthy(cleaned))
    THEN CityFilter(cleaned, request.city_lat, request.city_lng)
    ELSE cleaned

\* render_template("index.html", places_json=json.dumps(places), ...)
SearchAnswer(filtered) ==
    /\ local' = [local EXCEPT !.places = filtered]
    /\ response' = [status |-> 200, body |-> IndexPage, data |-> filtered]

\* index(), POST with the Places API answering OK: the results are cleaned
\* and, when the city was geocoded, filtered around its centre. The lookups
\* that only add a formatted_address to a result are left out.
IndexSearch ==
    /\ request.route = "index"
    /\ hpc = "start"
    /\ SearchAnswer(NearCityOnly(clean_place_data(request.results), TRUE))
    /\ hpc' = "done"
    /\ steps' = Append(steps, "search")
    /\ UNCHANGED <<request, route_calls>>
    /\ UNCHANGED funvars
    /\ UNCHANGED collabvars
    /\ UNCHANGED storevars

\* gpt_assist(), with a city and interests extracted from the prompt: the
\* index page with an error when the city is not geocoded, else the results
\* of all interests, deduplicated, cleaned and filtered around the centre
GptAssist ==
    /\ request.route = "gpt_assist"
    /\ hpc = "start"
    /\ IF IsNone(request.city_lat)
       THEN /\ response' = [status |-> 200, body |-> CityNotFound, data |-> None]
            /\ UNCHANGED local
       ELSE SearchAnswer(NearCityOnly(
                clean_place_data(List(UniquePlaces(request.results.c, {}))), FALSE))
    /\ hpc' = "done"
    /\ steps' = Append(steps, "search")
    /\ UNCHANGED <<request, route_calls>>
    /\ UNCHANGED funvars
    /\ UNCHANGED collabvars
    /\ UNCHANGED storevars

\* the answers of the save routes
SavedToFirebase == "Itinerary saved to Firebase successfully!"
SavedToSession == "Itinerary saved to session successfully!"
FirebaseNotConfigured == "Firebase not configured"
SavedToCloud == "Trip saved to cloud!"
FailedToSave == "Failed to save trip"
CouldNotSave == "Could not save trip"
TripSavedToCloud == "Trip saved to cloud"
TripSavedLocally == "Trip saved locally"

\* session['saved_trips'], created empty when the key is missing
SavedTrips == IF session.t = "absent" THEN <<>> ELSE session.c

\* the trips handed to FirebaseManager.save_itinerary so far: each gets a
\* document id of its own (the id ends in the time of the call)
DocsHanded == Len(SelectSeq(handed, LAMBDA h : h.store = "firebase"))

\* the id that FirebaseManager.save_itinerary returns: None without a document
DocIdOf(doc) == IF doc = <<>> THEN None ELSE Str(doc[1].id)

\* save_itinerary(): the trip goes to Firebase as it was built, or to the
\* session when Firebase is not enabled or the manager cannot be obtained
SaveItinerary ==
    /\ request.route = "save_itinerary"
    /\ hpc = "start"
    /\ LET itinerary == SaveItineraryTrip(request.data, NewId("uuid-", Len(handed) + 1))
           doc == FirebaseDocument(itinerary, NewId("doc-", DocsHanded + 1), request.firebase)
       IN IF request.firebase \in {"ok", "fail"}
          THEN /\ handed' = Append(handed, [store |-> "firebase", trip |-> itinerary])
               /\ firebase' = firebase \o doc
               /\ response' = [status |-> 200, body |-> SavedToFirebase,
                               data |-> Dict(<<Entry("itinerary_id", DocIdOf(doc)),
                                               Entry("storage", Str("firebase"))>>)]
               /\ UNCHANGED session
          ELSE /\ handed' = Append(handed, [store |-> "session", trip |-> itinerary])
               /\ session' = List(LastTen(Append(SavedTrips, itinerary)))
               /\ response' = [status |-> 200, body |-> SavedToSession,
                               data |-> Dict(<<Entry("itinerary_id", Get(itinerary, "id")),
                                               Entry("storage", Str("session"))>>)]
               /\ UNCHANGED firebase
    /\ hpc' = "done"
    /\ steps' = Append(steps, "save")
    /\ UNCHANGED <<request, local, route_calls>>
    /\ UNCHANGED funvars
    /\ UNCHANGED collabvars

\* firebase_save_itinerary(): the cleaned trip goes to Firebase only
FirebaseSaveItinerary ==
    /\ request.route = "firebase_save_itinerary"
    /\ hpc = "start"
    /\ LET itinerary_data == deep_clean_data(FirebaseSaveTrip(request.data))
           doc == FirebaseDocument(itinerary_data, NewId("doc-", DocsHanded + 1),
                                   request.firebase)
       IN IF request.firebase = "disabled"
          THEN /\ response' = [status |-> 503, body |-> FirebaseNotConfigured, data |-> None]
               /\ UNCHANGED <<firebase, handed>>
          ELSE IF request.firebase = "raise"
          THEN /\ response' = [status |-> 500, body |-> CouldNotSave, data |-> None]
               /\ UNCHANGED <<firebase, handed>>
          ELSE /\ handed' = Append(handed, [store |-> "firebase", trip |-> itinerary_data])
               /\ firebase' = firebase \o doc
               /\ response' = IF doc # <<>>
                              THEN [status |-> 200, body |-> SavedToCloud,
                                    data |-> Dict(<<Entry("id", DocIdOf(doc))>>)]
                              ELSE [status |-> 500, body |-> FailedToSave, data |-> None]
    /\ hpc' = "done"
    /\ steps' = Append(steps, "save")
    /\ UNCHANGED <<request, local, route_calls, session>>
    /\ UNCHANGED funvars
    /\ UNCHANGED collabvars

\* enhanced_save_itinerary(): the cleaned trip goes to Firebase when it is
\* enabled, and to the session in every case. A trip that deep_clean_data
\* turned into None is appended as None: trip_data["firebase_id"] is only
\* assigned with a document id, which a None trip never gets.
EnhancedSaveItinerary ==
    /\ request.route = "enhanced_save_itinerary"
    /\ hpc = "start"
    /\ LET trip_id == NewId("uuid-", Len(handed) + 1)
           trip_data == deep_clean_data(EnhancedSaveTrip(request.data, trip_id))
           called == request.firebase \in {"ok", "fail"}
           doc == IF called
                  THEN FirebaseDocument(trip_data, NewId("doc-", DocsHanded + 1),
                                        request.firebase)
                  ELSE <<>>
           kept == IF doc # <<>> THEN SetItem(trip_data, "firebase_id", DocIdOf(doc))
                   ELSE trip_data
       IN /\ handed' = handed
                       \o (IF called THEN <<[store |-> "firebase", trip |-> trip_data]>>
                           ELSE <<>>)
                       \o <<[store |-> "session", trip |-> kept]>>
          /\ firebase' = firebase \o doc
          /\ session' = List(Append(SavedTrips, kept))
          /\ response' = [status |-> 200,
                          body |-> IF doc # <<>> THEN TripSavedToCloud ELSE TripSavedLocally,
                          data |-> Dict(<<Entry("id", Str(trip_id))>>)]
    /\ hpc' = "done"
    /\ steps' = Append(steps, "save")
    /\ UNCHANGED <<request, local, route_calls>>
    /\ UNCHANGED funvars
    /\ UNCHANGED collabvars

\* the answers of the load routes
ItineraryNotFound == "Itinerary not found"
TripNotFound == "Trip not found"
ErrorLoadingTrip == "Error loading saved trip"
SavedTripsList == "trips"
LoadedItinerary == "itinerary"

\* get_saved_itineraries(): the trips of Firebase, or of the session when
\* Firebase is not enabled or the manager cannot be obtained; a read that
\* fails inside the manager gives no trips
GetSavedItineraries ==
    /\ request.route = "get_saved_itineraries"
    /\ hpc = "start"
    /\ LET trips == IF request.firebase = "ok" THEN get_user_itineraries(firebase)
                    ELSE IF request.firebase = "fail" THEN List(<<>>)
                    ELSE List(SavedTrips)
           storage == IF request.firebase \in {"ok", "fail"} THEN "firebase" ELSE "session"
       IN response' = [status |-> 200, body |-> SavedTripsList,
                       data |-> Dict(<<Entry("trips", trips), Entry("storage", Str(storage)),
                                       Entry("count", PyInt(Len(trips.c)))>>)]
    /\ hpc' = "done"
    /\ steps' = Append(steps, "load")
    /\ UNCHANGED <<request, local, route_calls>>
    /\ UNCHANGED funvars
    /\ UNCHANGED collabvars
    /\ UNCHANGED storevars

\* load_itinerary(itinerary_id): the trip of the session with that id
LoadItinerary ==
    /\ request.route = "load_itinerary"
    /\ hpc = "start"
    /\ LET trip == FindTrip(SavedTrips, request.itinerary_id)
       IN response' =
             IF trip = <<>>
             THEN [status |-> 404, body |-> ItineraryNotFound, data |-> None]
             ELSE IF trip[1].t = "raise"
             THEN [status |-> 500, body |-> trip[1].s, data |-> None]
             ELSE [status |-> 200, body |-> LoadedItinerary,
                   data |-> Dict(<<Entry("success", Str("True")), Entry("itinerary", trip[1])>>)]
    /\ hpc' = "done"
    /\ steps' = Append(steps, "load")
    /\ UNCHANGED <<request, local, route_calls>>
    /\ UNCHANGED funvars
    /\ UNCHANGED collabvars
    /\ UNCHANGED storevars

\* view_saved_trip: the trip of Firebase when enabled and found, else of the
\* session, as a sequence
FirebaseFirst(from_firebase) ==
    IF Truthy(from_firebase) THEN <<from_firebase>>
    ELSE FindTrip(SavedTrips, request.itinerary_id)
LookupTrip ==
    FirebaseFirst(IF request.firebase = "ok"
                  THEN get_itinerary_by_id(firebase, request.itinerary_id)
                  ELSE None)

\* view_saved_trip: the saved budget cleaned, or recalculated from the places
\* when it has no valid total or no breakdown
BudgetToShow(budget_estimate, recalculated) ==
    IF UseSavedBudget(budget_estimate)
    THEN FlatValue(clean_budget_data(budget_estimate))
    ELSE BudgetValue(recalculated)

\* view_saved_trip: deep_clean_data of the template data, with the budget
\* restored when cleaning removed it
RestoreBudget(cleaned, budget) ==
    IF cleaned.t = "dict" /\ IsNone(GetOr(cleaned, "budget_estimate", None)) /\ Truthy(budget)
    THEN SetItem(cleaned, "budget_estimate", budget)
    ELSE cleaned
TemplateData(saved_places, budget, name) ==
    RestoreBudget(deep_clean_data(Dict(<<Entry("places", saved_places),
                                         Entry("budget_estimate", budget),
                                         Entry("saved_trip_name", name)>>)),
                  budget)

\* view_saved_trip from the budget on: the page, or the error page when
\* estimate_budget raised
ViewRender(saved_places, budget, template_data, raised) ==
    IF raised \/ template_data.t # "dict"
    THEN /\ response' = [status |-> 200, body |-> ErrorLoadingTrip, data |-> None]
         /\ UNCHANGED local
    ELSE /\ local' = [local EXCEPT !.places = saved_places, !.budget_estimate = budget]
         /\ response' = [status |-> 200, body |-> ItineraryPage, data |-> template_data]
ViewBudget(trip, saved_places, budget_estimate, recalculated, budget) ==
    ViewRender(saved_places, budget,
               TemplateData(saved_places, budget, Get(trip, "name")),
               ~UseSavedBudget(budget_estimate) /\ recalculated.raised)
ViewPlaces(trip, saved_places, budget_estimate, recalculated) ==
    /\ route_calls' = IF Len(saved_places.c) >= 2 THEN route_calls + 1 ELSE route_calls
    /\ ViewBudget(trip, saved_places, budget_estimate, recalculated,
                  BudgetToShow(budget_estimate, recalculated))
ViewTrip(trip, budget_estimate) ==
    IF trip.t = "raise" \/ ~Has(trip, "places") \/ ~Has(trip, "name")
       \/ budget_estimate.t # "dict"
    THEN /\ response' = [status |-> 200, body |-> ErrorLoadingTrip, data |-> None]
         /\ UNCHANGED <<local, route_calls>>
    ELSE ViewPlaces(trip, Get(trip, "places"), budget_estimate,
                    estimate_budget(Get(trip, "places")))
ViewFound(found) ==
    IF found = <<>>
    THEN /\ response' = [status |-> 200, body |-> TripNotFound, data |-> None]
         /\ UNCHANGED <<local, route_calls>>
    ELSE ViewTrip(found[1], GetOr(found[1], "budget_estimate", Dict(<<>>)))

\* view_saved_trip(itinerary_id): the trip of Firebase or of the session is
\* shown with its saved budget cleaned, or with a recalculated budget when
\* the saved one has no valid total or no breakdown. Of the template data
\* places, budget_estimate and saved_trip_name are kept; the directions
\* fetched for 2 or more places only feed the distance and duration.
ViewSavedTrip ==
    /\ request.route = "view_saved_trip"
    /\ hpc = "start"
    /\ ViewFound(LookupTrip)
    /\ hpc' = "done"
    /\ steps' = Append(steps, "load")
    /\ UNCHANGED request
    /\ UNCHANGED funvars
    /\ UNCHANGED collabvars
    /\ UNCHANGED storevars

AppNext ==
    \/ GetSavedItineraries
    \/ LoadItinerary
    \/ ViewSavedTrip
    \/ SaveItinerary
    \/ FirebaseSaveItinerary
    \/ EnhancedSaveItinerary
    \/ IndexSearch
    \/ GptAssist
    \/ ItineraryParse
    \/ ItineraryResolve
    \/ ItineraryGateValid
    \/ ItineraryCluster
    \/ ItineraryGateCluster
    \/ ItineraryRoute
    \/ ItineraryReconcile
    \/ ItineraryBudget

AppSpec == AppInit /\ [][AppNext]_vars

-----------------------------------------------------------------------------
(* Specification of the saved-trip store: sequences of requests *)

\* the answers of delete_itinerary
DeletedFromFirebase == "Trip deleted from Firebase successfully!"
DeletedFromSession == "Trip deleted from session successfully!"
DeleteNotFound == "Trip not found"
DeleteError == "delete error"

\* FirebaseManager.delete_itinerary: document(id).delete() removes the
\* document, and succeeds as well when there is no such document
FirebaseDelete(docs, itinerary_id) == SelectSeq(docs, LAMBDA doc : doc.id # itinerary_id)

\* [trip for trip in saved_trips if trip.get('id') != itinerary_id]
WithoutTrip(saved_trips, itinerary_id) ==
    SelectSeq(saved_trips, LAMBDA trip : GetOr(trip, "id", None) # Str(itinerary_id))

\* delete_itinerary(itinerary_id) on the session: the answer for the trips kept
DeleteFromSession(kept) ==
    /\ session' = List(kept)
    /\ response' = IF Len(kept) < Len(SavedTrips)
                   THEN [status |-> 200, body |-> DeletedFromSession,
                         data |-> Dict(<<Entry("success", Str("True")),
                                         Entry("storage", Str("session"))>>)]
                   ELSE [status |-> 404, body |-> DeleteNotFound,
                         data |-> Dict(<<Entry("success", Str("False"))>>)]

\* delete_itinerary(itinerary_id): Firebase first when it is enabled, and the
\* session only when Firebase is not enabled, its delete fails or the
\* manager cannot be obtained; a trip of the session that is no dict makes
\* trip.get raise, which gives 500
DeleteItinerary ==
    /\ request.route = "delete_itinerary"
    /\ hpc = "start"
    /\ IF request.firebase = "ok"
       THEN /\ firebase' = FirebaseDelete(firebase, request.itinerary_id)
            /\ response' = [status |-> 200, body |-> DeletedFromFirebase,
                            data |-> Dict(<<Entry("success", Str("True")),
                                            Entry("storage", Str("firebase"))>>)]
            /\ UNCHANGED session
       ELSE IF \E i \in 1..Len(SavedTrips) : SavedTrips[i].t # "dict"
       THEN /\ response' = [status |-> 500, body |-> DeleteError, data |-> None]
            /\ UNCHANGED <<session, firebase>>
       ELSE /\ DeleteFromSession(WithoutTrip(SavedTrips, request.itinerary_id))
            /\ UNCHANGED firebase
    /\ hpc' = "done"
    /\ steps' = Append(steps, "delete")
    /\ UNCHANGED <<request, local, route_calls, handed>>
    /\ UNCHANGED funvars
    /\ UNCHANGED collabvars

\* the requests of one behaviour all find Firebase enabled and working, or not
\* enabled; the ids asked for are those of the first trip ever saved, of the
\* first trip saved in this behaviour after nine earlier ones, of the first
\* document, and one that no trip has
MaxRequests == 3
StoreBody ==
    Dict(<<Entry("name", Str("Paris trip")), Entry("places", List(<<PlacesA>>))>>)
StoreIds == {"uuid-1", "uuid-10", "doc-1", "none"}
StoreModes == {"disabled", "ok"}
StoreRequests ==
    {[route |-> r, data |-> StoreBody, firebase |-> mode] :
        r \in {"save_itinerary", "enhanced_save_itinerary"}, mode \in StoreModes}
    \cup {[route |-> r, itinerary_id |-> id, firebase |-> mode] :
            r \in {"delete_itinerary", "load_itinerary", "view_saved_trip"},
            id \in StoreIds, mode \in StoreModes}

\* nine trips saved to the session by /save-itinerary before the behaviour
EarlierTrips ==
    [i \in 1..9 |-> SaveItineraryTrip(Dict(<<Entry("name", Str("Old trip"))>>),
                                      NewId("uuid-", i))]

StoreInit ==
    /\ CollabIdle
    /\ call = [op |-> "none", arg |-> None]
    /\ ret = None
    /\ exc = ""
    /\ pc = "idle"
    /\ request \in StoreRequests
    /\ hpc = "start"
    /\ local = NoLocals
    /\ response = NoResponse
    /\ route_calls = 0
    /\ steps = <<>>
    /\ firebase = <<>>
    /\ \/ session = Absent /\ handed = <<>>
       \/ /\ session = List(EarlierTrips)
          /\ handed = [i \in 1..9 |-> [store |-> "session", trip |-> EarlierTrips[i]]]

\* the next request of the same client arrives
NextRequest ==
    /\ hpc = "done"
    /\ Len(steps) < MaxRequests
    /\ request' \in {r \in StoreRequests : r.firebase = request.firebase}
    /\ hpc' = "start"
    /\ local' = NoLocals
    /\ response' = NoResponse
    /\ UNCHANGED <<route_calls, steps>>
    /\ UNCHANGED funvars
    /\ UNCHANGED collabvars
    /\ UNCHANGED storevars

StoreNext ==
    \/ SaveItinerary
    \/ EnhancedSaveItinerary
    \/ DeleteItinerary
    \/ LoadItinerary
    \/ ViewSavedTrip
    \/ NextRequest

StoreSpec == StoreInit /\ [][StoreNext]_vars

-----------------------------------------------------------------------------
(* Collaborative trip planning (collaborative_planning.py)                 *)
(*                                                                         *)
(* The values of this part are plain: a str is a string (None and a        *)
(* missing id are ""), a dict is a function on strings, a list a sequence. *)
(* Timestamps (created_at, joined_at, last_updated, timestamp) are left    *)
(* out of the dicts: no branch of the code reads them.                     *)
(*                                                                         *)
(* On Firestore every get, set, update and add is one step and a document  *)
(* read is a copy. The memory fallback keeps Python objects: memory_store  *)
(* maps a key to an object of the heap, and the votes and comments dicts   *)
(* are objects of the heap as well, so that two calls can hold the same    *)
(* dict, or a dict that the store no longer refers to.                     *)

\* d.get(k, default) and d[k] = v
DictGet(d, k, default) == IF k \in DOMAIN d THEN d[k] ELSE default
DictPut(d, k, v) == [x \in DOMAIN d \cup {k} |-> IF x = k THEN v ELSE d[x]]
\* d.update(other)
DictUpdate(d, other) ==
    [x \in DOMAIN d \cup DOMAIN other |-> IF x \in DOMAIN other THEN other[x] ELSE d[x]]

\* str.replace(' ', '_')
ReplaceSpaces(x) ==
    CASE x = "maximilian alexander lee" -> "maximilian_alexander_lee"
      [] OTHER -> x

\* x[:20]
First20(x) ==
    CASE x = "maximilian_alexander_lee" -> "maximilian_alexander"
      [] OTHER -> x

\* CollaborativeTripManager._generate_participant_id(name)
_generate_participant_id(name) == First20(ReplaceSpaces(Lower(name)))

\* round(score, 2) of CollaborativeTripManager._calculate_vote_summary, in
\* hundredths; no tie occurs while total < 8
RoundedScore(points, total) ==
    LET d == IF total > 1 THEN total ELSE 1
    IN (200 * points + d) \div (2 * d)

VotesCast(vote_data, votes, vote) ==
    Cardinality({k \in vote_data : DictGet(votes[k], "vote", "") = vote})

SummaryOf(total, likes, dislikes, loves) ==
    [total |-> total, likes |-> likes, dislikes |-> dislikes, loves |-> loves,
     score |-> RoundedScore(loves * 2 + likes - dislikes, total)]

\* CollaborativeTripManager._calculate_vote_summary(votes)
_calculate_vote_summary(votes) ==
    IF DOMAIN votes = {}
    THEN [total |-> 0, likes |-> 0, dislikes |-> 0, loves |-> 0, score |-> 0]
    ELSE LET vote_data == DOMAIN votes \ {"summary"}
         IN SummaryOf(Cardinality(vote_data), VotesCast(vote_data, votes, "like"),
                      VotesCast(vote_data, votes, "dislike"),
                      VotesCast(vote_data, votes, "love"))

\* the clients that call the manager concurrently
Threads == {1, 2}

\* the bounds of a behaviour: calls made by all clients, trips created
MaxCalls == 3
MaxTrips == 2

\* the inputs
TripData == [destination |-> "Paris, France", places |-> <<"Eiffel Tower", "Louvre Museum">>]
Names == {"Alice", "Maximilian Alexander Lee", "Summary", "Creator"}
Voters == {"Alice", "Maximilian Alexander Lee", "Summary"}
Commenters == {"Alice", "Maximilian Alexander Lee"}
\* secrets.choice draws the six characters at random
ShareCodes == {"AAAAAA", "BBBBBB"}
\* the first eight characters of a uuid4
CommentIds == {"0a1b2c3d", "4e5f6a7b"}
TripIds == {"trip-1", "fake-trip-id", "share_AAAAAA"}
CreateCalls ==
    [op : {"create_collaborative_trip"}, trip_data : {TripData}, creator_name : {"Alice"},
     creator_id : {"", "uid-1"}]
JoinCalls == [op : {"join_trip"}, share_code : ShareCodes \cup {"INVALID"}, participant_name : Names]
UpdateCalls ==
    [op : {"update_trip_realtime"}, trip_id : TripIds,
     updates : {[new_place |-> "Arc de Triomphe"], [destination |-> "Rome"]},
     user_name : {"Alice"}]
VoteCalls ==
    [op : {"vote_on_place"}, trip_id : TripIds, place_id : {"eiffel_tower"},
     vote : {"like", "dislike", "love"}, user_name : Voters]
CommentCalls ==
    [op : {"add_comment"}, trip_id : TripIds, place_id : {"eiffel_tower"},
     comment : {"Amazing view"}, user_name : Commenters]

\* CollaborativeTripManager.__init__: Firestore when the Firebase manager
\* has a client, the memory store otherwise
EmptyFirestore(client) ==
    [client |-> client, collaborative_trips |-> <<>>, share_codes |-> <<>>,
     notifications |-> <<>>]

CollabInit ==
    /\ call = [op |-> "none", arg |-> None]
    /\ ret = None
    /\ exc = ""
    /\ pc = "idle"
    /\ AppIdle
    /\ firestore_db \in {EmptyFirestore(TRUE), EmptyFirestore(FALSE)}
    /\ memory_store = <<>>
    /\ heap = <<>>
    /\ threads = <<NoThread, NoThread>>
    /\ acked = {}

NoResult == [id |-> "", text |-> "no result", ok |-> FALSE]
\* a call that keeps no local variable between its steps
NoCallLocals == [none |-> TRUE]
TotalCalls == threads[1].n + threads[2].n

\* a client may call: it is in no call and the behaviour has calls left
MayCall(t) == threads[t].pc = "idle" /\ TotalCalls < MaxCalls

\* the call c of client t begins and stands at pc
Begin(t, c, at, locals) ==
    threads' = [threads EXCEPT ![t] = [pc |-> at, n |-> threads[t].n + 1, call |-> c,
                                        local |-> locals, result |-> NoResult]]

\* the call of client t goes on to pc with new locals
Goto(t, at, locals) ==
    threads' = [threads EXCEPT ![t] = [@ EXCEPT !.pc = at, !.local = locals]]

\* a call that returns in its first step
ReturnAtOnce(t, c, locals, result) ==
    threads' = [threads EXCEPT ![t] = [pc |-> "idle", n |-> threads[t].n + 1, call |-> c,
                                        local |-> locals, result |-> result]]

\* the call of client t returns
Return(t, result) ==
    threads' = [threads EXCEPT ![t] = [@ EXCEPT !.pc = "idle", !.result = result]]

\* the return values: (trip_id, share_code), (trip_id, message), True, False
Pair(id, text) == [id |-> id, text |-> text, ok |-> id # ""]
PyTrue == [id |-> "", text |-> "", ok |-> TRUE]
PyFalse == [id |-> "", text |-> "", ok |-> FALSE]

\* a new object of the heap
Alloc(h, value) == Append(h, value)

\* the stored entry under a key of the memory store
StoredEntry(key) == heap[memory_store[key]]

CollaborativeTrip(trip_id, share_code, c, votes, comments) ==
    LET actual_creator_id == IF c.creator_id # "" THEN c.creator_id ELSE c.creator_name
    IN [trip_id |-> trip_id, share_code |-> share_code, creator |-> actual_creator_id,
        creator_name |-> c.creator_name, creator_id |-> actual_creator_id,
        participants |-> [x \in {"creator"} |->
                             [name |-> c.creator_name, id |-> actual_creator_id,
                              role |-> "owner", active |-> TRUE]],
        trip_data |-> c.trip_data, votes |-> votes, comments |-> comments,
        status |-> "active",
        settings |-> [allow_editing |-> TRUE, require_approval |-> FALSE,
                      max_participants |-> 10]]

\* the trips created so far
TripsCreated ==
    IF firestore_db.client
    THEN Cardinality(DOMAIN firestore_db.collaborative_trips)
    ELSE Cardinality({k \in DOMAIN memory_store : "participants" \in DOMAIN StoredEntry(k)})

\* create_collaborative_trip, to the write of the trip
CreateTrip(t) ==
    /\ MayCall(t)
    /\ TripsCreated < MaxTrips
    /\ \E c \in CreateCalls, share_code \in ShareCodes :
          LET trip_id == NewId("trip-", TripsCreated + 1)
              n == Len(heap)
          IN /\ Begin(t, c, "create_share", [trip_id |-> trip_id, share_code |-> share_code])
             /\ IF firestore_db.client
                THEN /\ firestore_db' =
                           [firestore_db EXCEPT !.collaborative_trips =
                               DictPut(@, trip_id,
                                       CollaborativeTrip(trip_id, share_code, c, <<>>, <<>>))]
                     /\ UNCHANGED <<memory_store, heap>>
                ELSE /\ heap' = heap \o <<<<>>, <<>>,
                                          CollaborativeTrip(trip_id, share_code, c, n + 1, n + 2)>>
                     /\ memory_store' = DictPut(memory_store, trip_id, n + 3)
                     /\ UNCHANGED firestore_db
    /\ UNCHANGED acked
    /\ UNCHANGED funvars
    /\ UNCHANGED appvars

\* create_collaborative_trip, the write of the share code index
CreateShare(t) ==
    /\ threads[t].pc = "create_share"
    /\ LET l == threads[t].local
       IN /\ IF firestore_db.client
             THEN /\ firestore_db' = [firestore_db EXCEPT !.share_codes =
                                         DictPut(@, l.share_code, [trip_id |-> l.trip_id])]
                  /\ UNCHANGED <<memory_store, heap>>
             ELSE /\ heap' = Alloc(heap, [trip_id |-> l.trip_id])
                  /\ memory_store' = DictPut(memory_store, "share_" \o l.share_code,
                                             Len(heap) + 1)
                  /\ UNCHANGED firestore_db
          /\ Return(t, Pair(l.trip_id, l.share_code))
          /\ acked' = acked \cup {[kind |-> "create", trip |-> l.trip_id, place |-> "",
                                   key |-> l.share_code, name |-> threads[t].call.creator_name]}
    /\ UNCHANGED funvars
    /\ UNCHANGED appvars

InvalidShareCode == "Invalid share code"
TripNotFoundText == "Trip not found"
AlreadyJoined == "Already joined"
SuccessfullyJoined == "Successfully joined"

\* join_trip, the lookup of the share code
JoinFindShare(t) ==
    /\ MayCall(t)
    /\ \E c \in JoinCalls :
          LET key == "share_" \o c.share_code
              found == IF firestore_db.client
                       THEN c.share_code \in DOMAIN firestore_db.share_codes
                       ELSE key \in DOMAIN memory_store
              share_data == IF firestore_db.client
                            THEN firestore_db.share_codes[c.share_code]
                            ELSE StoredEntry(key)
          IN IF found
             THEN Begin(t, c, "join_get", [trip_id |-> share_data.trip_id])
             ELSE ReturnAtOnce(t, c, NoCallLocals, Pair("", InvalidShareCode))
    /\ UNCHANGED <<firestore_db, memory_store, heap, acked>>
    /\ UNCHANGED funvars
    /\ UNCHANGED appvars

\* join_trip, the read of the trip and the test of the participants
JoinGetTrip(t) ==
    /\ threads[t].pc = "join_get"
    /\ LET l == threads[t].local
           found == IF firestore_db.client
                    THEN l.trip_id \in DOMAIN firestore_db.collaborative_trips
                    ELSE l.trip_id \in DOMAIN memory_store
           trip_data == IF firestore_db.client
                        THEN firestore_db.collaborative_trips[l.trip_id]
                        ELSE StoredEntry(l.trip_id)
           participant_id == _generate_participant_id(threads[t].call.participant_name)
       IN IF ~found
          THEN Return(t, Pair("", TripNotFoundText))
          ELSE IF participant_id \in DOMAIN DictGet(trip_data, "participants", <<>>)
               THEN Return(t, Pair(l.trip_id, AlreadyJoined))
               ELSE Goto(t, "join_write",
                         [trip_id |-> l.trip_id,
                          participant_id |-> participant_id,
                          trip_ref |-> IF firestore_db.client THEN 0
                                       ELSE memory_store[l.trip_id],
                          participants |-> DictGet(trip_data, "participants", <<>>)])
    /\ UNCHANGED <<firestore_db, memory_store, heap, acked>>
    /\ UNCHANGED funvars
    /\ UNCHANGED appvars

Collaborator(participant_name) ==
    [name |-> participant_name, role |-> "collaborator", active |-> TRUE]

\* join_trip, the participant added and the trip written: Firestore gets the
\* participants map as the call read it, the memory store's dict is changed
\* in place
JoinWrite(t) ==
    /\ threads[t].pc = "join_write"
    /\ LET l == threads[t].local
           c == threads[t].call
       IN /\ IF firestore_db.client
             THEN /\ firestore_db' =
                        [firestore_db EXCEPT !.collaborative_trips[l.trip_id].participants =
                            DictPut(l.participants, l.participant_id,
                                    Collaborator(c.participant_name))]
                  /\ UNCHANGED <<memory_store, heap>>
             ELSE /\ heap' = [heap EXCEPT ![l.trip_ref].participants =
                                 DictPut(@, l.participant_id, Collaborator(c.participant_name))]
                  /\ memory_store' = DictPut(memory_store, l.trip_id, l.trip_ref)
                  /\ UNCHANGED firestore_db
          /\ Return(t, Pair(l.trip_id, SuccessfullyJoined))
          /\ acked' = acked \cup {[kind |-> "join", trip |-> l.trip_id, place |-> "",
                                   key |-> l.participant_id, name |-> c.participant_name]}
    /\ UNCHANGED funvars
    /\ UNCHANGED appvars

\* update_trip_realtime, the write of trip_data: Firestore's update sets the
\* field trip_data to updates and fails when the document does not exist;
\* the memory store updates the dict, and raises KeyError on an entry that
\* has no trip_data
UpdateTripData(t) ==
    /\ MayCall(t)
    /\ \E c \in UpdateCalls :
          IF firestore_db.client
             THEN IF c.trip_id \in DOMAIN firestore_db.collaborative_trips
                  THEN /\ firestore_db' =
                             [firestore_db EXCEPT !.collaborative_trips[c.trip_id].trip_data =
                                 c.updates]
                       /\ Begin(t, c, "update_notify", NoCallLocals)
                       /\ UNCHANGED <<memory_store, heap>>
                  ELSE /\ ReturnAtOnce(t, c, NoCallLocals, PyFalse)
                       /\ UNCHANGED <<firestore_db, memory_store, heap>>
             ELSE IF c.trip_id \in DOMAIN memory_store
                     /\ "trip_data" \in DOMAIN StoredEntry(c.trip_id)
                  THEN /\ heap' = [heap EXCEPT ![memory_store[c.trip_id]].trip_data =
                                      DictUpdate(@, c.updates)]
                       /\ Begin(t, c, "update_notify", NoCallLocals)
                       /\ UNCHANGED <<firestore_db, memory_store>>
                  ELSE /\ ReturnAtOnce(t, c, NoCallLocals, PyFalse)
                       /\ UNCHANGED <<firestore_db, memory_store, heap>>
    /\ UNCHANGED acked
    /\ UNCHANGED funvars
    /\ UNCHANGED appvars

Notification(c) ==
    [user |-> c.user_name, action |-> "updated_trip",
     changes |-> IF "new_place" \in DOMAIN c.updates THEN <<"new_place">>
                 ELSE <<"destination">>]

\* update_trip_realtime, the notification added
UpdateNotify(t) ==
    /\ threads[t].pc = "update_notify"
    /\ LET c == threads[t].call
       IN /\ IF firestore_db.client
             THEN /\ firestore_db' =
                        [firestore_db EXCEPT !.notifications =
                            DictPut(@, c.trip_id,
                                    Append(DictGet(@, c.trip_id, <<>>), Notification(c)))]
                  /\ UNCHANGED <<memory_store, heap>>
             ELSE /\ heap' = [heap EXCEPT ![memory_store[c.trip_id]] =
                                 DictPut(@, "notifications",
                                         Append(DictGet(@, "notifications", <<>>),
                                                Notification(c)))]
                  /\ UNCHANGED <<firestore_db, memory_store>>
          /\ Return(t, PyTrue)
    /\ UNCHANGED acked
    /\ UNCHANGED funvars
    /\ UNCHANGED appvars

\* the trip of a call on a trip id: found or not, the document or the entry
TripFound(trip_id) ==
    IF firestore_db.client
    THEN trip_id \in DOMAIN firestore_db.collaborative_trips
    ELSE trip_id \in DOMAIN memory_store

\* the locals of vote_on_place and add_comment on the memory store after the
\* read: the entry, the dict under field (a new dict when the entry has
\* none) and the dict of the place in it (a new dict when it has none)
MemoryRefs(trip_id, field, place_id) ==
    LET trip_ref == memory_store[trip_id]
        has_field == field \in DOMAIN heap[trip_ref]
        h1 == IF has_field THEN heap ELSE Alloc(heap, <<>>)
        dict_ref == IF has_field THEN heap[trip_ref][field] ELSE Len(h1)
        has_place == place_id \in DOMAIN h1[dict_ref]
        h2 == IF has_place THEN h1 ELSE Alloc(h1, <<>>)
        place_ref == IF has_place THEN h1[dict_ref][place_id] ELSE Len(h2)
    IN [heap |-> h2,
        local |-> [trip_ref |-> trip_ref, dict_ref |-> dict_ref,
                   place_ref |-> place_ref]]

\* the locals on Firestore after the read: copies of the dict under field
\* and of the dict of the place
FirestoreCopies(trip_id, field, place_id) ==
    LET trip_data == firestore_db.collaborative_trips[trip_id]
        dict == DictGet(trip_data, field, <<>>)
    IN [dict |-> dict, place |-> DictGet(dict, place_id, <<>>)]

\* the first step of vote_on_place and of add_comment: the read of the trip
ReadTrip(t, c, field, at) ==
    IF ~TripFound(c.trip_id)
       THEN /\ ReturnAtOnce(t, c, NoCallLocals, PyFalse)
            /\ UNCHANGED heap
       ELSE IF firestore_db.client
            THEN /\ Begin(t, c, at, FirestoreCopies(c.trip_id, field, c.place_id))
                 /\ UNCHANGED heap
            ELSE LET m == MemoryRefs(c.trip_id, field, c.place_id)
                 IN /\ Begin(t, c, at, m.local)
                    /\ heap' = m.heap

\* vote_on_place, the read of the trip and of its votes
VoteRead(t) ==
    /\ MayCall(t)
    /\ \E c \in VoteCalls : ReadTrip(t, c, "votes", "vote_put")
    /\ UNCHANGED <<firestore_db, memory_store, acked>>
    /\ UNCHANGED funvars
    /\ UNCHANGED appvars

\* the dict of the place as the call sees it
PlaceDict(l) == IF firestore_db.client THEN l.place ELSE heap[l.place_ref]

\* place_dict[key] = value
PutInPlace(t, key, value, at) ==
    LET l == threads[t].local
    IN IF firestore_db.client
       THEN /\ Goto(t, at, [l EXCEPT !.place = DictPut(@, key, value)])
            /\ UNCHANGED heap
       ELSE /\ Goto(t, at, l)
            /\ heap' = [heap EXCEPT ![l.place_ref] = DictPut(@, key, value)]

\* vote_on_place, the vote put into the votes of the place
VotePut(t) ==
    /\ threads[t].pc = "vote_put"
    /\ LET c == threads[t].call
       IN PutInPlace(t, _generate_participant_id(c.user_name),
                     [vote |-> c.vote, user |-> c.user_name], "vote_summary")
    /\ UNCHANGED <<firestore_db, memory_store, acked>>
    /\ UNCHANGED funvars
    /\ UNCHANGED appvars

WithSummary(l, vote_summary) ==
    [x \in DOMAIN l \cup {"summary"} |-> IF x = "summary" THEN vote_summary ELSE l[x]]

\* vote_on_place, the summary computed
VoteSummary(t) ==
    /\ threads[t].pc = "vote_summary"
    /\ Goto(t, "vote_write",
            WithSummary(threads[t].local, _calculate_vote_summary(PlaceDict(threads[t].local))))
    /\ UNCHANGED <<firestore_db, memory_store, heap, acked>>
    /\ UNCHANGED funvars
    /\ UNCHANGED appvars

\* the last writes of vote_on_place and add_comment: the dict of the place
\* is put under the place, the dict under the field, and the trip is
\* written; Firestore's update sets the whole field
WriteField(t, field, place_dict) ==
    LET l == threads[t].local
        c == threads[t].call
    IN IF firestore_db.client
       THEN /\ firestore_db' =
                  [firestore_db EXCEPT !.collaborative_trips[c.trip_id] =
                      DictPut(@, field, DictPut(l.dict, c.place_id, place_dict))]
            /\ UNCHANGED <<memory_store, heap>>
       ELSE /\ heap' = [heap EXCEPT ![l.place_ref] = place_dict,
                                    ![l.dict_ref] = DictPut(@, c.place_id, l.place_ref),
                                    ![l.trip_ref] = DictPut(@, field, l.dict_ref)]
            /\ memory_store' = DictPut(memory_store, c.trip_id, l.trip_ref)
            /\ UNCHANGED firestore_db

Acked(kind, c, key, name) ==
    [kind |-> kind, trip |-> c.trip_id, place |-> c.place_id, key |-> key, name |-> name]

\* vote_on_place, the summary put and the votes written
VoteWrite(t) ==
    /\ threads[t].pc = "vote_write"
    /\ LET l == threads[t].local
           c == threads[t].call
       IN /\ WriteField(t, "votes", DictPut(PlaceDict(l), "summary", l.summary))
          /\ acked' = acked \cup {Acked("vote", c, _generate_participant_id(c.user_name),
                                        c.user_name)}
    /\ Return(t, PyTrue)
    /\ UNCHANGED funvars
    /\ UNCHANGED appvars

\* add_comment, the read of the trip and of its comments
CommentRead(t) ==
    /\ MayCall(t)
    /\ \E c \in CommentCalls : ReadTrip(t, c, "comments", "comment_put")
    /\ UNCHANGED <<firestore_db, memory_store, acked>>
    /\ UNCHANGED funvars
    /\ UNCHANGED appvars

WithCommentId(l, comment_id) ==
    [x \in DOMAIN l \cup {"comment_id"} |-> IF x = "comment_id" THEN comment_id ELSE l[x]]

\* add_comment, the comment put into the comments of the place under a new
\* comment id
CommentPut(t) ==
    /\ threads[t].pc = "comment_put"
    /\ \E id \in CommentIds, comment_id \in CommentIds :
          LET c == threads[t].call
              l == threads[t].local
              comment_data == [user |-> c.user_name, comment |-> c.comment, id |-> id]
          IN IF firestore_db.client
             THEN /\ Goto(t, "comment_write",
                          WithCommentId([l EXCEPT !.place = DictPut(@, comment_id, comment_data)],
                                        comment_id))
                  /\ UNCHANGED heap
             ELSE /\ Goto(t, "comment_write", WithCommentId(l, comment_id))
                  /\ heap' = [heap EXCEPT ![l.place_ref] = DictPut(@, comment_id, comment_data)]
    /\ UNCHANGED <<firestore_db, memory_store, acked>>
    /\ UNCHANGED funvars
    /\ UNCHANGED appvars

\* add_comment, the comments written
CommentWrite(t) ==
    /\ threads[t].pc = "comment_write"
    /\ LET l == threads[t].local
           c == threads[t].call
       IN /\ WriteField(t, "comments", PlaceDict(l))
          /\ acked' = acked \cup {Acked("comment", c, l.comment_id, c.user_name)}
    /\ Return(t, PyTrue)
    /\ UNCHANGED funvars
    /\ UNCHANGED appvars

CollabNext ==
    \/ \E t \in Threads : CreateTrip(t)
    \/ \E t \in Threads : CreateShare(t)
    \/ \E t \in Threads : JoinFindShare(t)
    \/ \E t \in Threads : JoinGetTrip(t)
    \/ \E t \in Threads : JoinWrite(t)
    \/ \E t \in Threads : UpdateTripData(t)
    \/ \E t \in Threads : UpdateNotify(t)
    \/ \E t \in Threads : VoteRead(t)
    \/ \E t \in Threads : VotePut(t)
    \/ \E t \in Threads : VoteSummary(t)
    \/ \E t \in Threads : VoteWrite(t)
    \/ \E t \in Threads : CommentRead(t)
    \/ \E t \in Threads : CommentPut(t)
    \/ \E t \in Threads : CommentWrite(t)

CollabSpec == CollabInit /\ [][CollabNext]_vars

-----------------------------------------------------------------------------
(* Properties *)

Returned(op) == pc = "return" /\ call.op = op

\* the coordinates of a returned place
LatOf(place) == Get(Get(Get(place, "geometry"), "location"), "lat")
LngOf(place) == Get(Get(Get(place, "geometry"), "location"), "lng")
HasLocation(place) ==
    /\ Has(place, "geometry")
    /\ Has(Get(place, "geometry"), "location")
    /\ Has(Get(Get(place, "geometry"), "location"), "lat")
    /\ Has(Get(Get(place, "geometry"), "location"), "lng")

\* a raw coordinate that is a finite number, or the text of one, within
\* [-bound, bound] and not zero
RawCoordinateOk(v, bound) ==
    LET x == IF v.t = "str" THEN FloatOfStr(v.s) ELSE v
    IN /\ x.t \in {"int", "float"}
       /\ x.s = ""
       /\ -2 * bound <= x.h /\ x.h <= 2 * bound
       /\ x.h # 0
RawCoordinatesOk(raw) ==
    /\ raw.t = "dict"
    /\ HasLocation(raw)
    /\ RawCoordinateOk(LatOf(raw), 90)
    /\ RawCoordinateOk(LngOf(raw), 180)

\* a raw name that is a non-empty text, not a sentinel, or a non-zero number
RawNameOk(raw) ==
    /\ Has(raw, "name")
    /\ LET name == Get(raw, "name")
       IN \/ /\ name.t = "str"
             /\ name.s # ""
             /\ Lower(name.s) \notin {"undefined", "null", "nan"}
             /\ ~HasMarker(name.s)
          \/ name.t \in {"int", "float"} /\ name.s = "" /\ name.h # 0

\* C1: every place that clean_place_data returns has a latitude in [-90, 90]
\* and a longitude in [-180, 180], both finite and neither zero; a record
\* whose raw coordinates fail that test is not returned at all.
C1_CoordinatesValid ==
    Returned("clean_place_data") =>
        /\ \A i \in 1..Len(ret.c) :
              /\ HasLocation(ret.c[i])
              /\ LatOf(ret.c[i]).t = "float" /\ LatOf(ret.c[i]).s = ""
              /\ LngOf(ret.c[i]).t = "float" /\ LngOf(ret.c[i]).s = ""
              /\ -2 * 90 <= LatOf(ret.c[i]).h /\ LatOf(ret.c[i]).h <= 2 * 90
              /\ -2 * 180 <= LngOf(ret.c[i]).h /\ LngOf(ret.c[i]).h <= 2 * 180
              /\ LatOf(ret.c[i]).h # 0
              /\ LngOf(ret.c[i]).h # 0
        /\ (call.arg.t = "list" /\ Len(call.arg.c) = 1 /\ ~RawCoordinatesOk(call.arg.c[1]))
              => ret = List(<<>>)

\* a batch of a zero-latitude record and a good one returns the good one only
C1_Witness ==
    /\ Returned("clean_place_data")
    /\ Len(call.arg.c) = 2
    /\ call.arg.c[1] = RawPlace(Str("Louvre"), PyInt(0), PyInt(9), <<>>)
    /\ Len(ret.c) = 1
    /\ LatOf(ret.c[1]) = PyFloat(90)
    /\ LngOf(ret.c[1]) = PyFloat(18)

\* C2: a single record whose name and coordinates are valid is returned
\* whatever its optional fields hold, and a rating or price_level it comes
\* back with is within range.
C2_OptionalFieldsNeverReject ==
    (/\ Returned("clean_place_data")
     /\ call.arg.t = "list" /\ Len(call.arg.c) = 1
     /\ RawNameOk(call.arg.c[1]) /\ RawCoordinatesOk(call.arg.c[1]))
    => /\ Len(ret.c) = 1
       /\ Has(ret.c[1], "rating") =>
             (0 <= Get(ret.c[1], "rating").h /\ Get(ret.c[1], "rating").h <= 2 * 5)
       /\ Has(ret.c[1], "price_level") =>
             (0 <= Get(ret.c[1], "price_level").h /\ Get(ret.c[1], "price_level").h <= 2 * 4)

\* the records of a batch that are accepted when validated alone, in order
AcceptedAlone(places) ==
    LET alone[i \in 0..Len(places.c)] ==
            IF i = 0 THEN <<>>
            ELSE alone[i - 1] \o clean_place_data(List(<<places.c[i]>>)).c
    IN List(alone[Len(places.c)])

\* C3: clean_place_data of a list is the in-order sequence of the records it
\* accepts when each is validated alone.
C3_BatchIsPerRecord ==
    (Returned("clean_place_data") /\ call.arg.t = "list") => ret = AcceptedAlone(call.arg)

\* a value built from mappings, sequences, strings, numbers and nulls only
RECURSIVE PlainData(_)
PlainData(v) ==
    /\ v.t \in {"none", "str", "int", "float", "list", "dict", "entry"}
    /\ \A i \in 1..Len(v.c) : PlainData(v.c[i])

\* C4: deep_clean_data is idempotent on plain nested data: cleaning its
\* result again returns that result.
C4_Idempotent ==
    (Returned("deep_clean_data") /\ PlainData(call.arg)) => deep_clean_data(ret) = ret

\* a nested value that cleaning changes without dropping it whole
C4_Witness ==
    /\ Returned("deep_clean_data")
    /\ call.arg = List(<<Dict(<<Entry("a", Str("undefined")), Entry("b", None)>>),
                         Str("undefined")>>)
    /\ ret = List(<<Dict(<<Entry("b", None)>>)>>)

\* the container with exactly the entries whose own cleaned form is not None
\* (or, in a mapping, whose value was None), in order
EntriesKept(obj) ==
    LET kept[i \in 0..Len(obj.c)] ==
            IF i = 0 THEN <<>>
            ELSE LET e == obj.c[i]
                 IN IF obj.t = "list"
                    THEN IF IsNone(deep_clean_data(e)) THEN kept[i - 1]
                         ELSE Append(kept[i - 1], deep_clean_data(e))
                    ELSE IF ~IsNone(deep_clean_data(Str(e.s)))
                            /\ (~IsNone(deep_clean_data(e.c[1])) \/ IsNone(e.c[1]))
                         THEN Append(kept[i - 1], Entry(e.s, deep_clean_data(e.c[1])))
                         ELSE kept[i - 1]
    IN V(obj.t, "", 0, kept[Len(obj.c)])

\* C5: deep_clean_data of a mapping or a sequence returns the container with
\* exactly the entries whose own cleaned form is not null; no entry makes the
\* container itself disappear.
C5_EntriesRemovedIndividually ==
    (Returned("deep_clean_data") /\ call.arg.t \in {"list", "dict"})
    => ret = EntriesKept(call.arg)

\* the category of the claim: the first of food, activities, accommodation
\* that one of the tags belongs to
FirstMatch(place) ==
    LET tags == {GetOr(place, "types", List(<<>>)).c[i].s :
                    i \in 1..Len(GetOr(place, "types", List(<<>>)).c)}
    IN IF tags \cap FoodTypes # {} THEN "food"
       ELSE IF tags \cap ActivityTypes # {} THEN "activities"
       ELSE IF tags \cap AccommodationTypes # {} THEN "accommodation"
       ELSE "none"

\* the sums of n entries of a cost table
RECURSIVE SumsOf(_, _)
SumsOf(table, n) ==
    IF n = 0 THEN {0}
    ELSE {a + table[j] : a \in SumsOf(table, n - 1), j \in 1..Len(table)}

NumberIn(places, category) ==
    Cardinality({i \in 1..Len(places.c) : FirstMatch(places.c[i]) = category})

\* C6: each place adds one table cost to the first category, in the order
\* food, activities, accommodation, that one of its tags belongs to, and to
\* no other: every amount is a sum of as many costs of its table as there are
\* places of that category.
C6_OneCategoryPerPlace ==
    (Returned("estimate_budget") /\ exc = "") =>
        \A category \in {"food", "activities", "accommodation"} :
            ret.breakdown[category]
                \in SumsOf(CostTable(category), NumberIn(call.arg, category))

\* a place tagged restaurant and tourist_attraction is costed as food only
C6_Witness ==
    /\ Returned("estimate_budget")
    /\ call.arg = List(<<Dict(<<Entry("types",
                        List(<<Str("restaurant"), Str("tourist_attraction")>>))>>)>>)
    /\ ret.breakdown.food = 45
    /\ ret.breakdown.activities = 0
    /\ ret.breakdown.accommodation = 0

\* C7: for a single classified place with integer price level p the estimate
\* does not fail and the cost added is table[max(0, min(p, 4))].
C7_PriceLevelClamped ==
    (/\ Returned("estimate_budget")
     /\ Len(call.arg.c) = 1
     /\ FirstMatch(call.arg.c[1]) # "none")
    => /\ exc = ""
       /\ LET p == GetOr(call.arg.c[1], "price_level", PyInt(2)).h \div 2
              category == FirstMatch(call.arg.c[1])
          IN ret.breakdown[category] = CostTable(category)[Max(0, Min(p, 4)) + 1]

\* C8: the returned total is the sum of the four breakdown amounts and the
\* returned miscellaneous amount, which is the integer nearest to 10% of the
\* breakdown sum; transportation is 25.
C8_TotalIsSumOfParts ==
    (Returned("estimate_budget") /\ exc = "") =>
        LET sum == ret.breakdown.transportation + ret.breakdown.food
                   + ret.breakdown.activities + ret.breakdown.accommodation
        IN /\ ret.breakdown.transportation = 25
           /\ 10 * ret.miscellaneous - sum <= 5
           /\ sum - 10 * ret.miscellaneous <= 5
           /\ ret.total = sum + ret.miscellaneous

\* the sum S of the returned amounts, in halves
ReturnedSum == ret.transportation.h + ret.food.h + ret.activities.h + ret.miscellaneous.h

Abs(n) == IF n >= 0 THEN n ELSE -n

\* C9: with an integer saved total T > 0 and |T - S| <= S / 2, S the sum of the
\* returned amounts, the returned total is T; with any other integer T, or no
\* saved total, it is S. (A saved total that is not an int is first truncated
\* by safe_budget_value and is not covered here.)
C9_ReconcileRule ==
    (/\ Returned("clean_budget_data")
     /\ call.arg.t = "dict"
     /\ GetOr(call.arg, "total", None).t \in {"int", "none"})
    => LET saved == GetOr(call.arg, "total", PyInt(0))
       IN IF saved.h > 0 /\ 2 * Abs(saved.h - ReturnedSum) <= ReturnedSum
          THEN ret.total = saved
          ELSE ret.total = V("int", "", ReturnedSum, <<>>)

\* a saved total exactly half the sum above it is kept
C9_Witness ==
    /\ Returned("clean_budget_data")
    /\ GetOr(call.arg, "total", None) = PyInt(9)
    /\ ReturnedSum = 2 * 6
    /\ ret.total = PyInt(9)

\* the raw value a category is read from: breakdown[k] of a nested estimate,
\* the top-level key of a flat one
RawAmount(budget_data, k) ==
    LET breakdown == GetOr(budget_data, "breakdown", Dict(<<>>))
    IN IF breakdown.t = "dict" /\ Len(breakdown.c) > 0
       THEN GetOr(breakdown, k, None)
       ELSE GetOr(budget_data, k, None)

\* a raw value that is no finite number nor the text of one, or is negative
NoAmount(v) ==
    LET x == IF v.t = "str" THEN FloatOfStr(v.s) ELSE v
    IN ~(x.t \in {"int", "float"} /\ x.s = "") \/ x.h < 0

\* C10: for every input the five returned amounts are non-negative integers,
\* and transportation and food are 0 when the field they are read from is not
\* numeric or is negative.
C10_NonNegativeIntegers ==
    Returned("clean_budget_data") =>
        /\ \A k \in {"transportation", "food", "activities", "miscellaneous", "total"} :
              ret[k].t = "int" /\ ret[k].s = "" /\ ret[k].h >= 0 /\ ret[k].h % 2 = 0
        /\ call.arg.t # "dict" => \A k \in DOMAIN ret : ret[k] = PyInt(0)
        /\ call.arg.t = "dict" =>
              \A k \in {"transportation", "food"} :
                  NoAmount(RawAmount(call.arg, k)) => ret[k] = PyInt(0)

\* a negative amount, a fraction, a numeric text and a non-numeric total
C10_Witness ==
    /\ Returned("clean_budget_data")
    /\ call.arg = Dict(<<Entry("transportation", PyInt(-3)), Entry("food", PyFloat(9)),
                         Entry("activities", Str("9")), Entry("total", Str("abc"))>>)
    /\ ret = [transportation |-> PyInt(0), food |-> PyInt(4), activities |-> PyInt(9),
              miscellaneous |-> PyInt(0), total |-> PyInt(13)]

\* C11: a nested estimate {breakdown: {transportation, food, activities,
\* miscellaneous}, total} and the flat estimate holding the same five amounts
\* give the same result, and in both each returned category amount is the
\* input amount of that category.
C11_NestedEqualsFlat ==
    Returned("clean_budget_data") =>
        \A a \in StandardAmounts :
            /\ call.arg = NestedOf(a, SumOf(a)) =>
                  /\ ret = clean_budget_data(FlatOf(a, SumOf(a)))
                  /\ ret.transportation = a[1] /\ ret.food = a[2]
                  /\ ret.activities = a[3] /\ ret.miscellaneous = a[4]
            /\ call.arg = FlatOf(a, SumOf(a)) =>
                  /\ ret.transportation = a[1] /\ ret.food = a[2]
                  /\ ret.activities = a[3] /\ ret.miscellaneous = a[4]

\* the itinerary request has been answered
ItineraryDone == request.route = "itinerary" /\ hpc = "done"
Did(step) == \E i \in 1..Len(steps) : steps[i] = step
Answered(status, body) == response.status = status /\ response.body = body
Resolved == local.valid_places.t = "list"

\* how many of the valid places lie within 15 km of their centroid
NearCentre(valid) ==
    Cardinality({i \in 1..Len(valid.c) :
                    DistanceTimesN(valid, valid.c[i]) <= 15 * Len(valid.c)})

\* C12: a request with fewer than 2 valid selected places is answered with
\* the 'select at least 2 places' error, before any cluster filtering; one
\* with at least 2 valid places of which fewer than 2 lie within 15 km of
\* the centroid is answered with the 'closer together' error.
C12_TwoGates ==
    (ItineraryDone /\ Resolved) =>
        /\ Len(local.valid_places.c) < 2 =>
              /\ Answered(400, InsufficientPlaces)
              /\ ~Did("cluster")
              /\ local.selected_places = None
        /\ (Len(local.valid_places.c) >= 2 /\ NearCentre(local.valid_places) < 2) =>
              /\ Answered(400, InsufficientAfterClustering)
              /\ InsufficientAfterClustering # InsufficientPlaces
              /\ ~Did("route")

\* three valid places, only one of them within 15 km of the centroid
C12_Witness ==
    /\ ItineraryDone
    /\ Len(local.valid_places.c) = 3
    /\ NearCentre(local.valid_places) = 1
    /\ Answered(400, InsufficientAfterClustering)

\* the distance in km between the two valid places
Apart == Abs(KmOf(PlaceLat(local.valid_places.c[1])) - KmOf(PlaceLat(local.valid_places.c[2])))
PassedBothGates == Did("gate_valid") /\ Did("gate_cluster") /\ Did("route")

Submitted == request.all_places_json

\* a selection entry that is an integer index i with 0 <= i < len(list)
GoodEntry(idx_str, list) ==
    LET idx == IntOfStr(idx_str)
    IN idx.t = "int" /\ 0 <= idx.h /\ idx.h \div 2 < Len(list.c)

\* C14: the entries of the selection that are not an integer i with
\* 0 <= i < length of the submitted place list contribute no place: the valid
\* places are those that the other entries, processed alone, contribute.
C14_BadEntriesSkipped ==
    (request.route = "itinerary" /\ Resolved) =>
        local.valid_places =
            ResolveSelection(local.places,
                             SelectSeq(request.selected_ids,
                                       LAMBDA e : GoodEntry(e, Submitted)))

\* the validated form of the record at position i (from 0) of the submitted
\* list, as a sequence: empty when the record is invalid
ValidatedAt(i) == clean_place_data(List(<<Submitted.c[i + 1]>>)).c

RECURSIVE ValidatedSelection(_)
ValidatedSelection(ids) ==
    IF Len(ids) = 0 THEN <<>>
    ELSE ValidatedAt(IntOfStr(Head(ids)).h \div 2) \o ValidatedSelection(Tail(ids))

\* C15: when every selection entry is an index into the submitted list (and
\* no text of the list contains 'Undefined', see C3), the valid places are, in
\* order, the validated forms of the submitted records at those positions,
\* an invalid record contributing nothing.
C15_ResolvedAgainstSubmittedList ==
    (/\ request.route = "itinerary"
     /\ Resolved
     /\ ~ContainsUndefined(Submitted)
     /\ \A i \in 1..Len(request.selected_ids) :
            GoodEntry(request.selected_ids[i], Submitted))
    => local.valid_places = List(ValidatedSelection(request.selected_ids))

\* the order reconciliation has run and produced ordered_places
Reconciled == request.route = "itinerary" /\ local.ordered_places.t = "list"

\* a permutation of 0..m-1
IsPermutation(ix, m) == Len(ix) = m /\ {ix[i] : i \in 1..Len(ix)} = 0..(m - 1)

\* C16: after order reconciliation the first and the last surviving place
\* are still first and last; the list is the surviving list unchanged when
\* the response has no optimized index list or one whose length is not the
\* number of interior places; with a permutation of that length the interior
\* places appear in the order the permutation gives.
C16_OrderReconciliation ==
    Reconciled =>
        LET selected == local.selected_places.c
            ordered == local.ordered_places.c
            n == Len(selected)
            ix == local.route.optimizedIntermediateWaypointIndex
        IN /\ ordered[1] = selected[1]
           /\ ordered[Len(ordered)] = selected[n]
           /\ (~local.route.has_index \/ Len(ix) # n - 2) => ordered = selected
           /\ (local.route.has_index /\ IsPermutation(ix, n - 2)) =>
                 /\ Len(ordered) = n
                 /\ \A i \in 1..(n - 2) : ordered[i + 1] = selected[ix[i] + 2]

\* four surviving places, the two interior ones swapped
C16_Witness ==
    /\ Reconciled
    /\ Len(local.selected_places.c) = 4
    /\ local.route.optimizedIntermediateWaypointIndex = <<1, 0>>
    /\ local.ordered_places.c[2] = local.selected_places.c[3]
    /\ local.ordered_places.c[3] = local.selected_places.c[2]
    /\ local.ordered_places # local.selected_places

\* the steps of itinerary() in the order of the code
PipelineSteps ==
    <<"parse", "resolve", "gate_valid", "cluster", "gate_cluster", "route", "reconcile",
      "budget">>

\* C17: the steps taken by one itinerary request are an initial part of the
\* pipeline, each taken once and in order; the Routes API is called at most
\* once, and only with at least 2 valid and at least 2 clustered places; the
\* order reconciliation and the budget estimate come only after an answer
\* with status 200 that carries a route.
C17_StepsInSequence ==
    request.route = "itinerary" =>
        /\ Len(steps) <= Len(PipelineSteps)
        /\ steps = SubSeq(PipelineSteps, 1, Len(steps))
        /\ route_calls <= 1
        /\ route_calls = Cardinality({i \in 1..Len(steps) : steps[i] = "route"})
        /\ Did("route") =>
              /\ Len(local.valid_places.c) >= 2
              /\ Len(local.selected_places.c) >= 2
        /\ (Did("reconcile") \/ Did("budget")) =>
              /\ route_calls = 1
              /\ local.route.status = 200
              /\ local.route.has_routes
        /\ (hpc = "done" /\ Did("route") /\ ~Did("reconcile")) =>
              response.body \in {RoutingFailed, NoRoutesFound, ItineraryError}

\* a request answered with the itinerary page after one call of the Routes API
C17_Witness ==
    /\ ItineraryDone
    /\ steps = PipelineSteps
    /\ route_calls = 1
    /\ Answered(200, ItineraryPage)
    /\ local.budget_estimate.t = "dict"

\* a search request has been answered with the list of places
SearchDone == request.route \in {"index", "gpt_assist"} /\ hpc = "done" /\ response.data.t = "list"

\* the cleaned results of the search, before the city filter
SearchCleaned ==
    IF request.route = "index" THEN clean_place_data(request.results)
    ELSE clean_place_data(List(UniquePlaces(request.results.c, {})))

\* the square of the planar distance of a place from the city centre, in
\* hundredths of a degree
FromCity(place) ==
    (CentiDegOf(PlaceLat(place)) - CentiDegOf(request.city_lat))
        * (CentiDegOf(PlaceLat(place)) - CentiDegOf(request.city_lat))
    + (CentiDegOf(PlaceLng(place)) - CentiDegOf(request.city_lng))
        * (CentiDegOf(PlaceLng(place)) - CentiDegOf(request.city_lng))

\* C18: each proximity filter keeps exactly the places whose distance from
\* the reference is at most the radius, boundary included: the city filter of
\* index and gpt_assist with 0.3 degrees, the cluster filter of itinerary
\* with 15 km from the centroid.
C18_BoundaryIncluded ==
    /\ (SearchDone /\ ~IsNone(request.city_lat)) =>
          response.data = List(SelectSeq(SearchCleaned.c,
                                         LAMBDA place : FromCity(place) <= 30 * 30))
    /\ (request.route = "itinerary" /\ local.selected_places.t = "list") =>
          local.selected_places =
              List(SelectSeq(local.valid_places.c,
                             LAMBDA place : DistanceTimesN(local.valid_places, place)
                                                <= 15 * Len(local.valid_places.c)))

\* C19: every trip that a save route hands to Firebase or appends to the
\* session's saved_trips is sanitized: deep_clean_data, already applied,
\* leaves it as it is.
C19_SavedTripsAreCleaned ==
    \A i \in 1..Len(handed) : deep_clean_data(handed[i].trip) = handed[i].trip

\* C20: every budget_estimate loaded from a saved trip passes through
\* clean_budget_data before it is rendered or returned, whatever its shape:
\* the estimate a load route answers with is clean_budget_data of the
\* estimate that is stored.
LoadDone == request.route \in LoadRoutes /\ hpc = "done"
Reconciled20(trip) == FlatValue(clean_budget_data(GetOr(trip, "budget_estimate", Dict(<<>>))))
StoredTrip == LookupTrip
C20_LoadedBudgetIsReconciled ==
    LoadDone =>
        /\ response.body = SavedTripsList =>
              \A i \in 1..Len(Get(response.data, "trips").c) :
                  LET trip == Get(response.data, "trips").c[i]
                  IN Has(trip, "budget_estimate") =>
                        Get(trip, "budget_estimate") = Reconciled20(trip)
        /\ response.body = LoadedItinerary =>
              LET trip == Get(response.data, "itinerary")
              IN Get(trip, "budget_estimate") = Reconciled20(trip)
        /\ (request.route = "view_saved_trip" /\ response.body = ItineraryPage) =>
              Get(response.data, "budget_estimate") = Reconciled20(StoredTrip[1])

\* the number of times x occurs in the sequence q
Count(q, x) == Cardinality({i \in 1..Len(q) : q[i] = x})

\* no two places of the list have the same place_id
NoPlaceIdTwice(list) ==
    \A i, j \in 1..Len(list.c) :
        (i # j /\ Has(list.c[i], "place_id") /\ Has(list.c[j], "place_id"))
            => Get(list.c[i], "place_id") # Get(list.c[j], "place_id")

\* C21: the place list assembled by the itinerary pipeline never contains two
\* places with the same place_id, whatever the selection: neither the valid
\* places, nor the clustered places, nor the ordered places.
C21_PipelineListDeduplicated ==
    request.route = "itinerary" =>
        /\ local.valid_places.t = "list" => NoPlaceIdTwice(local.valid_places)
        /\ local.selected_places.t = "list" => NoPlaceIdTwice(local.selected_places)
        /\ local.ordered_places.t = "list" => NoPlaceIdTwice(local.ordered_places)

\* C25: whatever index list of matching length the route provider returns,
\* the ordered places are a rearrangement of the clustered places: the same
\* length, and every place as many times as before.
C25_OrderIsRearrangement ==
    (Reconciled /\ local.route.has_index
       /\ Len(local.route.optimizedIntermediateWaypointIndex)
              = Len(local.selected_places.c) - 2) =>
        /\ Len(local.ordered_places.c) = Len(local.selected_places.c)
        /\ \A i \in 1..Len(local.selected_places.c) :
              Count(local.ordered_places.c, local.selected_places.c[i])
                  = Count(local.selected_places.c, local.selected_places.c[i])

\* the trips handed to the session so far, in order
SessionHanded ==
    LET to_session == SelectSeq(handed, LAMBDA h : h.store = "session")
    IN [i \in 1..Len(to_session) |-> to_session[i].trip]

\* only save requests have been answered so far
OnlySaves == \A i \in 1..Len(steps) : steps[i] = "save"

\* C27: after any sequence of saves through /save-itinerary and
\* /enhanced-save-itinerary the session's saved_trips holds at most 10 trips,
\* and they are the most recently saved ones.
C27_SessionHoldsLastTen ==
    OnlySaves =>
        /\ Len(SavedTrips) <= 10
        /\ SavedTrips = LastTen(SessionHanded)

\* a save_itinerary request has been answered with success
SaveReportedSuccess ==
    /\ request.route = "save_itinerary"
    /\ hpc = "done"
    /\ response.status = 200

\* the trip with that id is in the session or is a document of Firebase
StoredUnder(id) ==
    \/ \E i \in 1..Len(SavedTrips) : GetOr(SavedTrips[i], "id", None) = id
    \/ \E i \in 1..Len(firebase) : Str(firebase[i].id) = id

\* C28: /save-itinerary reports success only when the trip has been stored:
\* when the Firebase save fails the trip is in the session, and the
\* itinerary_id of a success response identifies a stored trip.
C28_SuccessMeansStored ==
    SaveReportedSuccess =>
        /\ StoredUnder(Get(response.data, "itinerary_id"))
        /\ request.firebase \in {"fail", "raise"} =>
              \E i \in 1..Len(SavedTrips) :
                  SavedTrips[i] = handed[Len(handed)].trip

\* the trip with that id can be retrieved: load_itinerary finds it in the
\* session, or view_saved_trip finds it in Firebase or in the session
Retrievable(itinerary_id) ==
    \/ FindTrip(SavedTrips, itinerary_id) # <<>>
    \/ request.firebase = "ok" /\ ~IsNone(get_itinerary_by_id(firebase, itinerary_id))

\* the ids given out so far: those of the trips handed over and of the
\* documents
IssuedIds ==
    {GetOr(handed[i].trip, "id", None).s : i \in 1..Len(handed)}
    \cup {NewId("doc-", k) : k \in 1..DocsHanded}

\* C29: after /delete-itinerary/<id> has reported success the trip with that
\* id can no longer be retrieved through /load-itinerary/<id> or /trip/<id>,
\* in any sequence of saves and deletes, with Firebase enabled or not; and
\* deleting an id that was never saved reports 'Trip not found'.
C29_DeletedIsGone ==
    (request.route = "delete_itinerary" /\ hpc = "done") =>
        /\ response.status = 200 => ~Retrievable(request.itinerary_id)
        /\ request.itinerary_id \notin IssuedIds => response.body = DeleteNotFound

\* the collaborative trips of the store, and the parts of one of them
StoredTrips ==
    IF firestore_db.client
    THEN DOMAIN firestore_db.collaborative_trips
    ELSE {k \in DOMAIN memory_store : "participants" \in DOMAIN StoredEntry(k)}
StoredCollabTrip(id) ==
    IF firestore_db.client THEN firestore_db.collaborative_trips[id] ELSE StoredEntry(id)
ParticipantsOf(id) == StoredCollabTrip(id).participants
TripDataOf(id) == StoredCollabTrip(id).trip_data
\* the dict of a place under the field votes or comments of a trip, empty
\* when the trip has none for the place
PlaceDictOf(id, field, place_id) ==
    IF firestore_db.client
    THEN DictGet(StoredCollabTrip(id)[field], place_id, <<>>)
    ELSE LET dict == heap[StoredCollabTrip(id)[field]]
         IN IF place_id \in DOMAIN dict THEN heap[dict[place_id]] ELSE <<>>
\* the share codes of the trips of the store
IssuedCodes == {StoredCollabTrip(id).share_code : id \in StoredTrips}
\* the store of the manager
TripStore == <<firestore_db, memory_store, heap>>

\* only one client has called so far: the calls form a sequence
Sequential == threads[2].n = 0
\* this step begins a call of client t, and this step ends one
Begins(t) == threads'[t].n = threads[t].n + 1
Ends(t) == threads'[t] # threads[t] /\ threads'[t].pc = "idle"

\* a call on a share code or a trip id that the store does not have
UnknownTarget(c) ==
    \/ c.op = "join_trip" /\ c.share_code \notin IssuedCodes
    \/ c.op \in {"vote_on_place", "add_comment"} /\ c.trip_id \notin StoredTrips

UnknownRejected(t) ==
    (Begins(t) /\ UnknownTarget(threads'[t].call)) =>
        /\ threads'[t].pc = "idle"
        /\ threads'[t].result.id = ""
        /\ ~threads'[t].result.ok
        /\ UNCHANGED TripStore

\* C22: join_trip with a share code that no trip has, and vote_on_place and
\* add_comment on a trip id that is no trip's, return at once with no trip
\* id (join) or False (vote, comment) and leave the store as it was.
C22_UnknownIsRejected == [][\A t \in Threads : UnknownRejected(t)]_vars

\* the users whose vote on a place of a trip the manager has reported stored
VotersOf(id, place_id) ==
    {x.key : x \in {y \in acked : y.kind = "vote" /\ y.trip = id /\ y.place = place_id}}

\* the vote of the last call is the one stored for its user
LastVoteStored ==
    LET t == threads[1]
    IN (t.n > 0 /\ t.pc = "idle" /\ t.call.op = "vote_on_place" /\ t.result.ok
        /\ t.call.trip_id \in StoredTrips) =>
           LET votes == PlaceDictOf(t.call.trip_id, "votes", t.call.place_id)
               user_id == _generate_participant_id(t.call.user_name)
           IN /\ user_id \in DOMAIN votes
              /\ DictGet(votes[user_id], "vote", "") = t.call.vote
              /\ DictGet(votes[user_id], "user", "") = t.call.user_name

SummaryCountsVoters(id, place_id) ==
    LET votes == PlaceDictOf(id, "votes", place_id)
    IN VotersOf(id, place_id) # {} =>
          /\ "summary" \in DOMAIN votes
          /\ DictGet(votes["summary"], "total", -1) = Cardinality(VotersOf(id, place_id))
          /\ VotersOf(id, place_id) \subseteq DOMAIN votes

\* C23: after any sequence of vote_on_place calls on a trip, the vote stored
\* for the user of the last call is that call's vote (it has replaced the
\* user's earlier one), and the summary's total of every place is the number
\* of distinct users whose votes on it were stored.
C23_OneVotePerUser ==
    (Sequential /\ threads[1].pc = "idle") =>
        /\ LastVoteStored
        /\ \A id \in StoredTrips : SummaryCountsVoters(id, "eiffel_tower")

\* a participant of this name is in the trip, and no name is there twice
NamedIn(id, name) ==
    \E p \in DOMAIN ParticipantsOf(id) : ParticipantsOf(id)[p].name = name
NamedInNext(id, name) ==
    \E p \in DOMAIN ParticipantsOf(id)' : ParticipantsOf(id)'[p].name = name
NoNameTwice(id) ==
    \A p, q \in DOMAIN ParticipantsOf(id) :
        ParticipantsOf(id)[p].name = ParticipantsOf(id)[q].name => p = q

JoinedWithCode(c, r) ==
    \A x \in acked :
        (x.kind = "create" /\ x.key = c.share_code) =>
            /\ r.id = x.trip
            /\ NamedInNext(x.trip, c.participant_name)
JoinedAgain(c, r) ==
    (\E x \in acked : x.kind = "join" /\ x.name = c.participant_name /\ x.trip = r.id) =>
        /\ r.text = AlreadyJoined
        /\ UNCHANGED TripStore
JoinReturn ==
    (Sequential' /\ Ends(1) /\ threads'[1].call.op = "join_trip") =>
        /\ JoinedWithCode(threads'[1].call, threads'[1].result)
        /\ \A id \in StoredTrips' : NoNameTwice(id)'
        /\ JoinedAgain(threads'[1].call, threads'[1].result)

\* C24: in a sequence of calls, a join_trip with the share code that
\* create_collaborative_trip returned gives that trip's id and the trip then
\* has a participant of the given name, no trip has two participants of one
\* name, and a join under a name that has joined the trip before returns
\* 'Already joined' and changes nothing.
C24_JoinWithShareCode == [][JoinReturn]_vars

UpdateMerges(t) ==
    /\ \A c \in UpdateCalls :
          (Begins(t) /\ threads'[t].call = c /\ c.trip_id \in StoredTrips) =>
              /\ threads'[t].pc = "update_notify"
              /\ TripDataOf(c.trip_id)' = DictUpdate(TripDataOf(c.trip_id), c.updates)
    /\ \A id \in StoredTrips :
          (threads[t].pc = "update_notify" /\ threads[t].call.trip_id = id /\ Ends(t)) =>
              /\ threads'[t].result.ok
              /\ TripDataOf(id)' = TripDataOf(id)

\* C26: update_trip_realtime on a trip of the store sets the keys of updates
\* in the trip's trip_data, keeps every other key with its value, and
\* returns True, on Firestore and on the memory store alike.
C26_UpdateKeepsOtherKeys == [][\A t \in Threads : UpdateMerges(t)]_vars

StillStored(x) ==
    CASE x.kind = "vote" ->
            x.trip \in StoredTrips => x.key \in DOMAIN PlaceDictOf(x.trip, "votes", x.place)
      [] x.kind = "comment" ->
            x.trip \in StoredTrips => x.key \in DOMAIN PlaceDictOf(x.trip, "comments", x.place)
      [] x.kind = "join" -> x.key \in DOMAIN ParticipantsOf(x.trip)
      [] OTHER -> TRUE

\* C30: whatever the interleaving of the clients' calls, every vote, comment
\* and participant that a call has reported stored is in the stored trip.
C30_NoUpdateLost == \A x \in acked : StillStored(x)

====
